---------------------------- MODULE Spec2Model ----------------------------
(***************************************************************************)
(* A model of XMLHandler (lightwheel/MJCF2USD/connection/mjcf2usd_utils.py) *)
(* the MJCF preprocessing that runs before the USD import: reference        *)
(* quaternion correction, <replicate> expansion and <site> relocation.      *)
(*                                                                          *)
(* Representation.                                                          *)
(*  - The ElementTree is a sequence `nodes` of records [tag, attr, kids];    *)
(*    an element is its index (Python object identity), node 1 is the root  *)
(*    <mujoco>, `kids` is the ordered child list, `attr` is the attribute    *)
(*    dictionary (a function whose DOMAIN is the set of attributes present). *)
(*    A detached element stays in `nodes` but is no longer reachable.        *)
(*  - Attribute text that holds numbers is the sequence of the numbers it    *)
(*    splits into ("1 0 0" is <<1,0,0>>, "" is <<>>).  Names are sequences   *)
(*    of one-character strings, so that replace() and the "_<k>" suffix are  *)
(*    computed and not assumed.                                              *)
(*  - A rotation (scipy Rotation) is a unit quaternion, scalar LAST.  It is  *)
(*    represented by the primitive integer vector on its ray, so that        *)
(*    normalisation is division by the gcd and composition is the Hamilton   *)
(*    product; all arithmetic is exact for the rotations of the cube (the    *)
(*    quarter turns about the coordinate axes and their products), which is  *)
(*    what the documents of Init use.  Floats are idealised as exact.        *)
(*  - An angle is a pair <<a, p>> standing for the number a + p*(pi/2), so   *)
(*    that a document in degrees writes <<90, 0>> and one in radians         *)
(*    <<0, 1>> for the same quarter turn.                                    *)
(***************************************************************************)
EXTENDS Integers, Sequences, FiniteSets, TLC

VARIABLES nodes, replicate_name_list, ret, expands,
          disk, io, pc, log

\* the handler, and what lies around it: the files on disk, the outcome of the
\* last write, the position of mjcf_to_usd and the handler calls it has made
env == <<disk, io, pc, log>>
vars == <<nodes, replicate_name_list, ret, expands, disk, io, pc, log>>

--------------------------------------------------------------------------
(* Bounds of the model *)

\* largest count attribute of a <replicate> block in the documents of Init
MaxCount == 3
\* most children of worldbody in the documents that vary them
MaxTop == 2
\* calls of expand_replicates_fields made on one handler
MaxExpands == 2
\* most children of the body in the documents that vary its geoms and joints
MaxBodyKids == 2

--------------------------------------------------------------------------
(* Integers and sequences *)

Abs(n) == IF n < 0 THEN -n ELSE n

RECURSIVE Gcd(_, _)
Gcd(a, b) == IF b = 0 THEN Abs(a) ELSE Gcd(Abs(b), Abs(a) % Abs(b))

Range(s) == {s[i] : i \in DOMAIN s}

RECURSIVE Concat(_)
Concat(ss) == IF ss = <<>> THEN <<>> ELSE Head(ss) \o Concat(Tail(ss))

\* the positions of x in s, and s without its first occurrence of x (list.remove)
IndexOf(s, x) == CHOOSE i \in DOMAIN s : s[i] = x /\ \A j \in 1..(i-1) : s[j] # x
RemoveAt(s, i) == SubSeq(s, 1, i-1) \o SubSeq(s, i+1, Len(s))
RemoveFirst(s, x) == IF x \notin Range(s) THEN s ELSE RemoveAt(s, IndexOf(s, x))

SelectTag(ns, ids, t) == SelectSeq(ids, LAMBDA i : ns[i].tag = t)

--------------------------------------------------------------------------
(* Rotations: scipy.spatial.transform.Rotation on exact quaternions *)

IDENT == <<0, 0, 0, 1>>

\* the primitive vector on the ray of q (q / |q| as a unit quaternion)
DivBy(q, g) == IF g = 0 THEN q ELSE <<q[1] \div g, q[2] \div g, q[3] \div g, q[4] \div g>>
Prim(q) == DivBy(q, Gcd(Gcd(q[1], q[2]), Gcd(q[3], q[4])))

\* Hamilton product of scalar-last quaternions
QMul(p, q) ==
    << p[4]*q[1] + p[1]*q[4] + p[2]*q[3] - p[3]*q[2],
       p[4]*q[2] - p[1]*q[3] + p[2]*q[4] + p[3]*q[1],
       p[4]*q[3] + p[1]*q[2] - p[2]*q[1] + p[3]*q[4],
       p[4]*q[4] - p[1]*q[1] - p[2]*q[2] - p[3]*q[3] >>

\* R.from_quat normalises its argument; a zero quaternion is a ValueError
RFromQuat(q) == Prim(q)
RFromQuatFails(q) == Len(q) # 4 \/ q = <<0, 0, 0, 0>>

\* Rotation.__mul__: p * q applies q first
RMul(p, q) == Prim(QMul(p, q))

RInv(q) == <<-q[1], -q[2], -q[3], q[4]>>

RAsQuat(q) == q

\* Rotation.apply: q v q^-1
Vec3Div(t, n) == <<t[1] \div n, t[2] \div n, t[3] \div n>>
RApply(q, v) ==
    Vec3Div(QMul(QMul(q, <<v[1], v[2], v[3], 0>>), RInv(q)),
            q[1]*q[1] + q[2]*q[2] + q[3]*q[3] + q[4]*q[4])

\* the same rotation: unit quaternions q and -q
SameRot(p, q) == p = q \/ p = <<-q[1], -q[2], -q[3], -q[4]>>

\* an angle a + p*(pi/2), read in the given unit, is a whole number of quarter
\* turns when it is a multiple of 90 degrees, resp. of pi/2 radians
ExactAngle(ang, use_degree) ==
    IF use_degree THEN ang[2] = 0 /\ ang[1] % 90 = 0 ELSE ang[1] = 0
QuarterTurns(ang, use_degree) ==
    IF use_degree THEN ang[1] \div 90 ELSE ang[2]

\* a rotation outside the model's exact range (no document of Init yields it)
INEXACT == <<1, 2, 3, 4>>

\* cos and sin of half of k quarter turns, up to their common factor
HalfCos(k) == <<1, 1, 0, -1, -1, -1, 0, 1>>[(k % 8) + 1]
HalfSin(k) == <<0, 1, 1, 1, 0, -1, -1, -1>>[(k % 8) + 1]

\* the rotation by the angle ang about the unit vector ax
QuarterRot(ax, k) ==
    Prim(<<HalfSin(k)*ax[1], HalfSin(k)*ax[2], HalfSin(k)*ax[3], HalfCos(k)>>)
AxisRot(ax, ang, use_degree) ==
    IF ~ExactAngle(ang, use_degree) THEN INEXACT
    ELSE QuarterRot(ax, QuarterTurns(ang, use_degree))

UnitAxis(c) ==
    IF c \in {"x", "X"} THEN <<1, 0, 0>>
    ELSE IF c \in {"y", "Y"} THEN <<0, 1, 0>> ELSE <<0, 0, 1>>

\* R.from_euler(seq, angles, degrees): a lower-case sequence is extrinsic (the
\* first rotation is applied first), an upper-case one intrinsic
EulerCompose(seq, e1, e2, e3) ==
    IF seq[1] \in {"x", "y", "z"}
    THEN RMul(e3, RMul(e2, e1))
    ELSE RMul(e1, RMul(e2, e3))
RFromEuler(seq, angles, use_degree) ==
    EulerCompose(seq, AxisRot(UnitAxis(seq[1]), angles[1], use_degree),
                      AxisRot(UnitAxis(seq[2]), angles[2], use_degree),
                      AxisRot(UnitAxis(seq[3]), angles[3], use_degree))
RFromEulerFails(seq, angles) == Len(angles) # 3 \/ Len(seq) # 3

\* np.linalg.norm of an integer vector whose norm is an integer
ISqrt(s) == CHOOSE r \in 0..s : r*r <= s /\ (r+1)*(r+1) > s
Norm3(v) == ISqrt(v[1]*v[1] + v[2]*v[2] + v[3]*v[3])

--------------------------------------------------------------------------
(* module-level helpers of mjcf2usd_utils.py *)

convert_name_from_mjcf_2_usd(mjcf_name) ==
    [i \in DOMAIN mjcf_name |->
        IF mjcf_name[i] \in {".", "-"} THEN "_" ELSE mjcf_name[i]]

convert_quat_mjcf_2_scipy(quat_mjcf) == Tail(quat_mjcf) \o <<quat_mjcf[1]>>

convert_quat_scipy_2_mjcf(quat_scipy) == <<quat_scipy[4]>> \o SubSeq(quat_scipy, 1, 3)

--------------------------------------------------------------------------
(* xml.etree.ElementTree *)

ROOT == 1

Has(ns, e, a) == a \in DOMAIN ns[e].attr
\* Element.get(a, default)
Get(ns, e, a, default) == IF Has(ns, e, a) THEN ns[e].attr[a] ELSE default

\* Element.set(a, v)
SetAttr(ns, e, a, v) ==
    [ns EXCEPT ![e].attr =
        [k \in (DOMAIN ns[e].attr) \cup {a} |-> IF k = a THEN v ELSE ns[e].attr[k]]]

\* del Element.attrib[a]
DelAttr(ns, e, a) ==
    [ns EXCEPT ![e].attr = [k \in (DOMAIN ns[e].attr) \ {a} |-> ns[e].attr[k]]]

\* Element.append(c) and Element.remove(c)
AppendKid(ns, e, c) == [ns EXCEPT ![e].kids = Append(@, c)]
RemoveKid(ns, e, c) == [ns EXCEPT ![e].kids = RemoveFirst(@, c)]

\* the descendants of e in document order, e excluded (".//*")
RECURSIVE Desc(_, _)
Desc(ns, e) ==
    Concat([i \in DOMAIN ns[e].kids |-> <<ns[e].kids[i]>> \o Desc(ns, ns[e].kids[i])])

\* Element.iter(): e and its descendants in document order
Iter(ns, e) == <<e>> \o Desc(ns, e)

\* Element.findall(".//tag") and Element.find(".//tag") (0 for None)
First(s) == IF s = <<>> THEN 0 ELSE s[1]
FindAllDeep(ns, e, t) == SelectTag(ns, Desc(ns, e), t)
FindDeep(ns, e, t) == First(FindAllDeep(ns, e, t))

\* Element.findall("tag") and Element.find("tag"): direct children only
FindAll(ns, e, t) == SelectTag(ns, ns[e].kids, t)
Find(ns, e, t) == First(FindAll(ns, e, t))

\* copy.deepcopy(e): the copy's subtree is appended to ns; [ns, id]
\* r is a freshly built subtree [ns, id]; it becomes the last child of parent
Attach(r, parent) == AppendKid(r.ns, parent, r.id)
RECURSIVE DeepCopy(_, _)
DeepCopyKids(ns, kids, parent) ==
    LET RECURSIVE Go(_, _)
        Go(m, i) ==
            IF i > Len(kids) THEN m
            ELSE Go(Attach(DeepCopy(m, kids[i]), parent), i + 1)
    IN  Go(ns, 1)
DeepCopy(ns, e) ==
    [ns |-> DeepCopyKids(Append(ns, [tag |-> ns[e].tag, attr |-> ns[e].attr, kids |-> <<>>]),
                         ns[e].kids, Len(ns) + 1),
     id |-> Len(ns) + 1]

\* the elements of the document: those reachable from the root
Live(ns) == Range(Iter(ns, ROOT))
Parent(ns, e) == CHOOSE p \in Live(ns) : e \in Range(ns[p].kids)

--------------------------------------------------------------------------
(* XMLHandler *)

\* str.lower() on the letters the documents use
LowerChar(c) ==
    CASE c = "D" -> "d" [] c = "E" -> "e" [] c = "G" -> "g" [] c = "R" -> "r"
      [] c = "A" -> "a" [] c = "I" -> "i" [] c = "N" -> "n" [] OTHER -> c
Lower(s) == [i \in DOMAIN s |-> LowerChar(s[i])]

DEGREE == <<"d", "e", "g", "r", "e", "e">>
RADIAN == <<"r", "a", "d", "i", "a", "n">>
OBJECT == <<"o", "b", "j", "e", "c", "t">>
XYZ == <<"x", "y", "z">>
ZERO == <<0, 0>>

AngleIsDegree(ns, compiler) ==
    IF compiler # 0 THEN Lower(Get(ns, compiler, "angle", DEGREE)) = DEGREE ELSE TRUE
is_angle_in_degrees(ns) == AngleIsDegree(ns, Find(ns, ROOT, "compiler"))

\* an attribute value that is truthy: present and not the empty string
Truthy(ns, e, a) == Has(ns, e, a) /\ ns[e].attr[a] # <<>>

Raise == [raised |-> TRUE, val |-> <<>>]
Return(v) == [raised |-> FALSE, val |-> v]
\* [scipy_quat[3], scipy_quat[0], scipy_quat[1], scipy_quat[2]]
ScalarFirst(scipy_quat) == <<scipy_quat[4], scipy_quat[1], scipy_quat[2], scipy_quat[3]>>

\* the numbers of an attribute whose numbers are written as angles a + p*(pi/2)
Plain(angs) == [i \in DOMAIN angs |-> angs[i][1]]

\* lines 316-328: the axis, its norm, the angle
AxisAngleQuat(axis, axis_norm, angle_val, use_degree) ==
    IF axis_norm = 0 THEN Raise
    ELSE Return(ScalarFirst(RAsQuat(AxisRot(
             <<axis[1] \div axis_norm, axis[2] \div axis_norm, axis[3] \div axis_norm>>,
             angle_val, use_degree))))
AxisAngleOf(axis, angle_val, use_degree) ==
    AxisAngleQuat(axis, Norm3(axis), angle_val, use_degree)
get_quat_axisangle(coords, use_degree) ==
    IF Len(coords) # 4 THEN Raise
    ELSE AxisAngleOf(Plain(SubSeq(coords, 1, 3)), coords[4], use_degree)

get_quat_euler(coords, eulerseq, use_degree) ==
    IF Len(coords) # 3 \/ RFromEulerFails(eulerseq, coords) THEN Raise
    ELSE Return(ScalarFirst(RAsQuat(RFromEuler(eulerseq, coords, use_degree))))

\* get_quat_in with the fault of looking at euler before axisangle
get_quat_in_EulerFirst(ns, elem, use_degree) ==
    IF Truthy(ns, elem, "quat")
    THEN IF Len(ns[elem].attr.quat) # 4 THEN Raise
         ELSE Return(ns[elem].attr.quat)
    ELSE IF Truthy(ns, elem, "euler")
    THEN get_quat_euler(ns[elem].attr.euler, Get(ns, elem, "eulerseq", XYZ), use_degree)
    ELSE IF Truthy(ns, elem, "axisangle")
    THEN get_quat_axisangle(ns[elem].attr.axisangle, use_degree)
    ELSE Return(<<1, 0, 0, 0>>)
get_quat_in(ns, elem, use_degree) ==
    IF Truthy(ns, elem, "quat")
    THEN IF Len(ns[elem].attr.quat) # 4 THEN Raise
         ELSE Return(ns[elem].attr.quat)
    ELSE IF Truthy(ns, elem, "axisangle")
    THEN get_quat_axisangle(ns[elem].attr.axisangle, use_degree)
    ELSE IF Truthy(ns, elem, "euler")
    THEN get_quat_euler(ns[elem].attr.euler, Get(ns, elem, "eulerseq", XYZ), use_degree)
    ELSE Return(<<1, 0, 0, 0>>)
get_quat(ns, elem) == get_quat_in(ns, elem, is_angle_in_degrees(ns))

\* the handler while a method runs: the tree, replicate_name_list, and whether
\* an exception has been raised (the rest of the method is then skipped)
H(ns, names, err) == [ns |-> ns, names |-> names, err |-> err]
Fail(h) == [h EXCEPT !.err = TRUE]
WithNs(h, ns) == [h EXCEPT !.ns = ns]

\* elem_update_with_ref_quat with the fault of composing with the reference
\* orientation itself, not with its inverse
elem_update_with_ref_quat_NoInverse(h, elem, mesh_quat, mesh_ref_quat) ==
    IF mesh_ref_quat = <<>> THEN h
    ELSE IF RFromQuatFails(mesh_ref_quat) \/ (mesh_quat # <<>> /\ RFromQuatFails(mesh_quat))
    THEN Fail(h)
    ELSE WithNs(h, SetAttr(h.ns, elem, "quat",
             convert_quat_scipy_2_mjcf(RAsQuat(
                 RMul(IF mesh_quat = <<>> THEN IDENT
                      ELSE RFromQuat(convert_quat_mjcf_2_scipy(mesh_quat)),
                      RFromQuat(convert_quat_mjcf_2_scipy(mesh_ref_quat)))))))
elem_update_with_ref_quat(h, elem, mesh_quat, mesh_ref_quat) ==
    IF mesh_ref_quat # <<>> /\ mesh_quat # <<>>
    THEN IF RFromQuatFails(mesh_ref_quat) \/ RFromQuatFails(mesh_quat) THEN Fail(h)
         ELSE WithNs(h, SetAttr(h.ns, elem, "quat",
                  convert_quat_scipy_2_mjcf(RAsQuat(
                      RMul(RFromQuat(convert_quat_mjcf_2_scipy(mesh_quat)),
                           RInv(RFromQuat(convert_quat_mjcf_2_scipy(mesh_ref_quat))))))))
    ELSE IF mesh_ref_quat # <<>> /\ mesh_quat = <<>>
    THEN IF RFromQuatFails(mesh_ref_quat) THEN Fail(h)
         ELSE WithNs(h, SetAttr(h.ns, elem, "quat",
                  convert_quat_scipy_2_mjcf(RAsQuat(
                      RInv(RFromQuat(convert_quat_mjcf_2_scipy(mesh_ref_quat)))))))
    ELSE h

\* lines 262-265 for a geom whose mesh is mesh_name
GeomWithQuat(h, child, mesh_quat, mesh_ref_quat) ==
    IF mesh_quat.raised THEN Fail(h)
    ELSE elem_update_with_ref_quat(h, child, mesh_quat.val, mesh_ref_quat)
GeomOfMesh(h, child, mesh_name, mesh_refquat_dict) ==
    IF mesh_name \in DOMAIN mesh_refquat_dict
    THEN GeomWithQuat(h, child, get_quat(h.ns, child), mesh_refquat_dict[mesh_name])
    ELSE h
geom_visit(h, child, mesh_refquat_dict) ==
    IF h.ns[child].tag = "geom" /\ Has(h.ns, child, "mesh")
    THEN GeomOfMesh(h, child, convert_name_from_mjcf_2_usd(h.ns[child].attr.mesh),
                    mesh_refquat_dict)
    ELSE h

RECURSIVE geom_add_refquat(_, _, _)
GeomDescend(g1, child, mesh_refquat_dict) ==
    IF g1.err THEN g1 ELSE geom_add_refquat(g1, child, mesh_refquat_dict)
GeomLoop(h, kids, mesh_refquat_dict) ==
    LET RECURSIVE Go(_, _)
        Go(g, i) ==
            IF g.err \/ i > Len(kids) THEN g
            ELSE Go(GeomDescend(geom_visit(g, kids[i], mesh_refquat_dict), kids[i],
                                mesh_refquat_dict), i + 1)
    IN  Go(h, 1)
geom_add_refquat(h, parent, mesh_refquat_dict) ==
    GeomLoop(h, h.ns[parent].kids, mesh_refquat_dict)

\* dict[key] = value
DictSet(d, key, value) ==
    [k \in (DOMAIN d) \cup {key} |-> IF k = key THEN value ELSE d[k]]

\* the first loop of preprocess_refquat_in_meshes: [ns, dict]
CollectLoop(ns, meshes) ==
    LET RECURSIVE Go(_, _, _)
        Go(m, d, i) ==
            IF i > Len(meshes) THEN [ns |-> m, dict |-> d]
            ELSE IF Has(m, meshes[i], "name") /\ Has(m, meshes[i], "refquat")
            THEN Go(DelAttr(m, meshes[i], "refquat"),
                    DictSet(d, convert_name_from_mjcf_2_usd(m[meshes[i]].attr.name),
                            m[meshes[i]].attr.refquat),
                    i + 1)
            ELSE Go(m, d, i + 1)
    IN  Go(ns, <<>>, 1)
collect_refquat(ns, asset_elem) == CollectLoop(ns, FindAll(ns, asset_elem, "mesh"))

PreprocessWith(h, c) == geom_add_refquat(WithNs(h, c.ns), ROOT, c.dict)
PreprocessIn(h, asset_elem) ==
    IF asset_elem = 0 THEN Fail(h)
    ELSE PreprocessWith(h, collect_refquat(h.ns, asset_elem))
preprocess_refquat_in_meshes(h) == PreprocessIn(h, FindDeep(h.ns, ROOT, "asset"))

\* lines 78-82: the sites move into object_body, one after the other
MoveSites(ns, parent_body, object_body, sites_to_move) ==
    LET RECURSIVE Move(_, _)
        Move(m, i) ==
            IF i > Len(sites_to_move) THEN m
            ELSE Move(AppendKid(RemoveKid(m, parent_body, sites_to_move[i]),
                                object_body, sites_to_move[i]), i + 1)
    IN  Move(ns, 1)
FixWith(f, parent_body, objs, sites_to_move) ==
    IF objs = <<>> \/ sites_to_move = <<>> THEN f
    ELSE [ns |-> MoveSites(f.ns, parent_body, objs[Len(objs)], sites_to_move),
          modified |-> TRUE]
\* the body of the loop of fix_site_placement for one parent_body: [ns, modified]
fix_one_body(f, parent_body) ==
    FixWith(f, parent_body,
            SelectSeq(f.ns[parent_body].kids,
                      LAMBDA c : f.ns[c].tag = "body" /\ Get(f.ns, c, "name", <<>>) = OBJECT),
            SelectTag(f.ns, f.ns[parent_body].kids, "site"))

\* FixLoop with the fault of visiting the bodies last to first
FixLoop_LastFirst(ns, bodies) ==
    LET RECURSIVE Go(_, _)
        Go(f, i) == IF i < 1 THEN f ELSE Go(fix_one_body(f, bodies[i]), i - 1)
    IN  Go([ns |-> ns, modified |-> FALSE], Len(bodies))
FixLoop(ns, bodies) ==
    LET RECURSIVE Go(_, _)
        Go(f, i) == IF i > Len(bodies) THEN f ELSE Go(fix_one_body(f, bodies[i]), i + 1)
    IN  Go([ns |-> ns, modified |-> FALSE], 1)
fix_site_placement(ns) == FixLoop(ns, FindAllDeep(ns, ROOT, "body"))

\* str(k) for a natural number k
DigitChar(d) == <<"0", "1", "2", "3", "4", "5", "6", "7", "8", "9">>[d + 1]
RECURSIVE Str(_)
Str(k) == IF k < 10 THEN <<DigitChar(k)>> ELSE Str(k \div 10) \o <<DigitChar(k % 10)>>

\* InsertItem with the fault of appending the item to the block itself
InsertItem_IntoBlock(h, parent, item, now_pos, q, replicate_depth) ==
    IF parent = ROOT \/ parent \notin Live(h.ns) THEN h
    ELSE [h EXCEPT !.ns = AppendKid(SetAttr(SetAttr(h.ns, item, "pos", now_pos), item, "quat",
                                            ScalarFirst(q)),
                                    parent, item),
                   !.names = IF Has(h.ns, item, "name") /\ replicate_depth = 1
                             THEN Append(h.names, item) ELSE h.names]
\* lines 415-428: the item gets its pose and is appended to the grandparent
InsertItem(h, parent, item, now_pos, q, replicate_depth) ==
    IF parent = ROOT \/ parent \notin Live(h.ns) THEN h
    ELSE [h EXCEPT !.ns = AppendKid(SetAttr(SetAttr(h.ns, item, "pos", now_pos), item, "quat",
                                            ScalarFirst(q)),
                                    Parent(h.ns, parent), item),
                   !.names = IF Has(h.ns, item, "name") /\ replicate_depth = 1
                             THEN Append(h.names, item) ELSE h.names]
Vec3Add(a, b) == <<a[1] + b[1], a[2] + b[2], a[3] + b[3]>>
PlaceItem(h, parent, item, pos, quat, father_pos, father_quat, replicate_depth) ==
    IF Len(quat) < 4 \/ Len(pos) < 3 THEN Fail(h)
    ELSE IF RFromQuatFails(<<quat[2], quat[3], quat[4], quat[1]>>) THEN Fail(h)
    ELSE InsertItem(h, parent, item,
                    Vec3Add(father_pos, RApply(father_quat, pos)),
                    RAsQuat(RMul(father_quat, RFromQuat(<<quat[2], quat[3], quat[4], quat[1]>>))),
                    replicate_depth)
add_replicated_item_to_grandparent(h, parent, item, father_pos, father_quat, replicate_depth) ==
    PlaceItem(h, parent, item, Get(h.ns, item, "pos", <<0, 0, 0>>),
              Get(h.ns, item, "quat", <<1, 0, 0, 0>>), father_pos, father_quat,
              replicate_depth)

\* lines 461-472 for one i: c is the deep copy [ns, id], q1 the updated new_quat
ReplicateOne(g, c, element, offset, i, q1, replicate_depth) ==
    IF Len(offset) < 3 THEN Fail(WithNs(g, c.ns))
    ELSE add_replicated_item_to_grandparent(
             WithNs(g, c.ns), element, c.id,
             <<offset[1] * i, offset[2] * i, offset[3] * i>>, q1, replicate_depth + 1)
\* StepQuat with the fault of composing the increment at index 0 as well
StepQuat_EveryIndex(rot, new_quat, i) == RMul(rot, new_quat)
\* new_quat at index i (lines 469-470)
StepQuat(rot, new_quat, i) == IF i > 0 THEN RMul(rot, new_quat) ELSE new_quat
\* `for i in range(count)` for one template child: [h, q], q being new_quat
replicate_item(h, element, item, count, offset, rot, new_quat, replicate_depth) ==
    LET RECURSIVE Go(_, _, _)
        Go(g, q, i) ==
            IF g.err \/ i >= count THEN [h |-> g, q |-> q]
            ELSE Go(ReplicateOne(g, DeepCopy(g.ns, item), element, offset, i,
                                 StepQuat(rot, q, i), replicate_depth),
                    StepQuat(rot, q, i), i + 1)
    IN  Go(h, new_quat, 0)

\* lines 473-474
DropItem(r, element, item) ==
    [h |-> IF r.h.err THEN r.h ELSE WithNs(r.h, RemoveKid(r.h.ns, element, item)), q |-> r.q]
\* `for item in list(element)` (lines 457-474); new_quat is carried from item to item
BlockLoop(h, element, items, count, offset, rot, new_quat, replicate_depth) ==
    LET RECURSIVE Go(_, _)
        Go(r, k) ==
            IF r.h.err \/ k > Len(items) THEN r.h
            ELSE IF r.h.ns[items[k]].tag = "replicate" THEN Go(r, k + 1)
            ELSE Go(DropItem(replicate_item(r.h, element, items[k], count, offset, rot, r.q,
                                            replicate_depth),
                             element, items[k]), k + 1)
    IN  Go([h |-> h, q |-> new_quat], 1)
\* line 476
DropBlock(g, element, father_element) ==
    IF g.err THEN g ELSE WithNs(g, RemoveKid(g.ns, father_element, element))
BlockWith(h, element, father_element, euler, is_degree, replicate_depth) ==
    IF RFromEulerFails(XYZ, euler) THEN Fail(h)
    ELSE DropBlock(BlockLoop(h, element, h.ns[element].kids,
                             Get(h.ns, element, "count", 1),
                             Get(h.ns, element, "offset", <<0, 0, 0>>),
                             RFromEuler(XYZ, euler, is_degree),
                             RFromEuler(XYZ, <<ZERO, ZERO, ZERO>>, is_degree),
                             replicate_depth),
                   element, father_element)
\* lines 449-476 of traverse_and_expand_replicates: the block `element` is expanded
expand_block(h, element, father_element, replicate_depth) ==
    BlockWith(h, element, father_element,
              Get(h.ns, element, "euler", <<ZERO, ZERO, ZERO>>),
              is_angle_in_degrees(h.ns), replicate_depth)

RECURSIVE traverse_and_expand_replicates(_, _, _, _)
TraverseKids(h, element, items, d) ==
    LET RECURSIVE Go(_, _)
        Go(g, i) ==
            IF g.err \/ i > Len(items) THEN g
            ELSE Go(traverse_and_expand_replicates(g, items[i], element, d), i + 1)
    IN  Go(h, 1)
AfterKids(h1, element, father_element, replicate_depth) ==
    IF h1.err \/ h1.ns[element].tag # "replicate" THEN h1
    ELSE expand_block(h1, element, father_element, replicate_depth)
\* the traversal with the fault of expanding a block before its children
traverse_and_expand_replicates_NoDescent(h, element, father_element, replicate_depth) ==
    AfterKids(h, element, father_element, replicate_depth)
traverse_and_expand_replicates(h, element, father_element, replicate_depth) ==
    AfterKids(TraverseKids(h, element, h.ns[element].kids,
                           replicate_depth + (IF h.ns[element].tag = "replicate" THEN 1 ELSE 0)),
              element, father_element, replicate_depth)

\* `for element in worldbody`: the iteration indexes the live child list
traverse_worldbody(h, worldbody) ==
    LET RECURSIVE Go(_, _)
        Go(g, i) ==
            IF g.err \/ i > Len(g.ns[worldbody].kids) THEN g
            ELSE Go(traverse_and_expand_replicates(g, g.ns[worldbody].kids[i], worldbody, 0),
                    i + 1)
    IN  Go(h, 1)

\* Count with the fault of numbering from 1
Count_FromOne(dict_name, key) == IF key \in DOMAIN dict_name THEN dict_name[key] ELSE 1
\* dict_name.get(key, 0)
Count(dict_name, key) == IF key \in DOMAIN dict_name THEN dict_name[key] ELSE 0
\* the renaming loop of expand_replicates_fields (lines 487-494)
dedup_names(ns, names) ==
    LET RECURSIVE Go(_, _, _)
        Go(m, dict_name, i) ==
            IF i > Len(names) THEN m
            ELSE Go(SetAttr(m, names[i], "name",
                            m[names[i]].attr.name \o <<"_">>
                              \o Str(Count(dict_name, m[names[i]].attr.name))),
                    DictSet(dict_name, m[names[i]].attr.name,
                            Count(dict_name, m[names[i]].attr.name) + 1),
                    i + 1)
    IN  Go(ns, <<>>, 1)

Dedup(h1) == IF h1.err THEN h1 ELSE WithNs(h1, dedup_names(h1.ns, h1.names))
ExpandIn(h, worldbody) ==
    Dedup(IF worldbody # 0 THEN traverse_worldbody(h, worldbody) ELSE h)
expand_replicates_fields(h) == ExpandIn(h, FindDeep(h.ns, ROOT, "worldbody"))

\* the dictionary a joint is recorded with; a missing attribute reads ""
JointData(ns, joint) ==
    [damping |-> Get(ns, joint, "damping", <<>>),
     stiffness |-> Get(ns, joint, "stiffness", <<>>),
     frictionloss |-> Get(ns, joint, "frictionloss", <<>>)]
\* the loop with the fault of keeping the first joint of a name
JointsLoop_FirstWins(ns, joints_info, joints) ==
    LET RECURSIVE Go(_, _)
        Go(d, i) ==
            IF i > Len(joints) THEN d
            ELSE IF Get(ns, joints[i], "name", <<>>) = <<>> THEN Go(d, i + 1)
            ELSE IF ns[joints[i]].attr.name \in DOMAIN d THEN Go(d, i + 1)
            ELSE Go(DictSet(d, ns[joints[i]].attr.name, JointData(ns, joints[i])), i + 1)
    IN  Go(joints_info, 1)
\* `for joint in body.findall("joint")`
JointsLoop(ns, joints_info, joints) ==
    LET RECURSIVE Go(_, _)
        Go(d, i) ==
            IF i > Len(joints) THEN d
            ELSE IF Get(ns, joints[i], "name", <<>>) = <<>> THEN Go(d, i + 1)
            ELSE Go(DictSet(d, ns[joints[i]].attr.name, JointData(ns, joints[i])), i + 1)
    IN  Go(joints_info, 1)
RECURSIVE find_joints_in_body(_, _, _)
\* `for child_body in body.findall("body")`, and the loop of get_joints
BodiesLoop(ns, joints_info, bodies) ==
    LET RECURSIVE Go(_, _)
        Go(d, i) ==
            IF i > Len(bodies) THEN d ELSE Go(find_joints_in_body(ns, d, bodies[i]), i + 1)
    IN  Go(joints_info, 1)
find_joints_in_body(ns, joints_info, body) ==
    BodiesLoop(ns, JointsLoop(ns, joints_info, FindAll(ns, body, "joint")),
               FindAll(ns, body, "body"))
JointsUnder(ns, worldbody) ==
    IF worldbody = 0 THEN <<>> ELSE BodiesLoop(ns, <<>>, FindAll(ns, worldbody, "body"))
get_joints(ns) == JointsUnder(ns, FindDeep(ns, ROOT, "worldbody"))

\* None, where a density is expected (a density of the table is never empty)
NONE == <<>>
\* "col" in class_name
COL == <<"c", "o", "l">>
Contains(s, sub) ==
    \E i \in 1..(Len(s) - Len(sub) + 1) : SubSeq(s, i, i + Len(sub) - 1) = sub
\* one <default> child of the defaults section: its entry of class_density_dict
ClassEntry(ns, d, default, geom) ==
    IF Get(ns, default, "class", <<>>) = <<>> \/ geom = 0 THEN d
    ELSE IF Get(ns, geom, "density", <<>>) = <<>> THEN d
    ELSE DictSet(d, ns[default].attr.class, ns[geom].attr.density)
ClassLoop(ns, defaults) ==
    LET RECURSIVE Go(_, _)
        Go(d, i) ==
            IF i > Len(defaults) THEN d
            ELSE Go(ClassEntry(ns, d, defaults[i], Find(ns, defaults[i], "geom")), i + 1)
    IN  Go(<<>>, 1)
\* a variant that takes the first geom with a known class, collision or not
BodyDensityIn_AnyClass(ns, geoms, class_density_dict) ==
    LET RECURSIVE Go(_)
        Go(i) ==
            IF i > Len(geoms) THEN NONE
            ELSE IF Get(ns, geoms[i], "class", <<>>) \in DOMAIN class_density_dict
            THEN class_density_dict[ns[geoms[i]].attr.class]
            ELSE Go(i + 1)
    IN  Go(1)
BodyDensityIn(ns, geoms, class_density_dict) ==
    LET RECURSIVE Go(_)
        Go(i) ==
            IF i > Len(geoms) THEN NONE
            ELSE IF /\ Contains(Get(ns, geoms[i], "class", <<>>), COL)
                    /\ ns[geoms[i]].attr.class \in DOMAIN class_density_dict
            THEN class_density_dict[ns[geoms[i]].attr.class]
            ELSE Go(i + 1)
    IN  Go(1)
get_body_density(ns, body, class_density_dict) ==
    BodyDensityIn(ns, FindAll(ns, body, "geom"), class_density_dict)
\* one body of `for body in worldbody.iter('body')`
BodyEntry(ns, d, body, density) ==
    IF Has(ns, body, "name") /\ density # NONE
    THEN DictSet(d, ns[body].attr.name, density) ELSE d
DensityLoop(ns, bodies, class_density_dict) ==
    LET RECURSIVE Go(_, _)
        Go(d, i) ==
            IF i > Len(bodies) THEN d
            ELSE Go(BodyEntry(ns, d, bodies[i],
                              get_body_density(ns, bodies[i], class_density_dict)), i + 1)
    IN  Go(<<>>, 1)
\* [raised, val]: without a worldbody, worldbody.iter is an AttributeError
DensityIn(ns, defaultbody, worldbody) ==
    IF defaultbody = 0 THEN Return(<<>>)
    ELSE IF worldbody = 0 THEN Raise
    ELSE Return(DensityLoop(ns, FindAllDeep(ns, worldbody, "body"),
                            ClassLoop(ns, FindAll(ns, defaultbody, "default"))))
get_density(ns) ==
    DensityIn(ns, FindDeep(ns, ROOT, "default"), FindDeep(ns, ROOT, "worldbody"))

\* os.path.join(parent_dir, file), parent_dir being the directory of xml_path
PARENT_DIR == <<"d">>
PathJoin(dir, file) ==
    IF file # <<>> /\ file[1] = "/" THEN file ELSE dir \o <<"/">> \o file
MATERIAL_ == <<"m", "a", "t", "e", "r", "i", "a", "l", "_">>

\* the first loop of get_materials; a texture without a file is a TypeError
TextureEntry(ns, r, texture) ==
    IF r.raised \/ ~Has(ns, texture, "file") THEN Raise
    ELSE Return(DictSet(r.val, Get(ns, texture, "name", NONE),
                        [file |-> PathJoin(PARENT_DIR, ns[texture].attr.file),
                         type |-> Get(ns, texture, "type", NONE)]))
TextureLoop(ns, textures) ==
    LET RECURSIVE Go(_, _)
        Go(r, i) ==
            IF i > Len(textures) THEN r
            ELSE Go(TextureEntry(ns, r, textures[i]), i + 1)
    IN  Go(Return(<<>>), 1)
\* material_data of one material; texture is [file, type] or both ''
MaterialData(ns, material, texture) ==
    [rgba |-> Get(ns, material, "rgba", NONE),
     shininess |-> Get(ns, material, "shininess", NONE),
     specular |-> Get(ns, material, "specular", NONE),
     texture_file |-> texture.file,
     texture_type |-> texture.type]
\* the second loop: an unknown texture is an AttributeError, a material
\* without a name a TypeError
MaterialEntry(ns, textures, r, material, texture_name) ==
    IF r.raised THEN Raise
    ELSE IF texture_name # <<>> /\ texture_name \notin DOMAIN textures THEN Raise
    ELSE IF ~Has(ns, material, "name") THEN Raise
    ELSE Return(DictSet(r.val,
                        convert_name_from_mjcf_2_usd(MATERIAL_ \o ns[material].attr.name),
                        MaterialData(ns, material,
                                     IF texture_name # <<>> THEN textures[texture_name]
                                     ELSE [file |-> <<>>, type |-> <<>>])))
MaterialLoop(ns, textures, materials) ==
    LET RECURSIVE Go(_, _)
        Go(r, i) ==
            IF i > Len(materials) THEN r
            ELSE Go(MaterialEntry(ns, textures, r, materials[i],
                                  Get(ns, materials[i], "texture", <<>>)), i + 1)
    IN  Go(Return(<<>>), 1)
MaterialsWith(ns, asset, textures) ==
    IF textures.raised THEN Raise
    ELSE MaterialLoop(ns, textures.val, FindAll(ns, asset, "material"))
\* [raised, val]: without an asset element, asset.findall is an AttributeError
MaterialsIn(ns, asset) ==
    IF asset = 0 THEN Raise
    ELSE MaterialsWith(ns, asset, TextureLoop(ns, FindAll(ns, asset, "texture")))
get_materials(ns) == MaterialsIn(ns, Find(ns, ROOT, "asset"))

GeomMaterialEntry(ns, d, geom) ==
    IF Get(ns, geom, "mesh", <<>>) # <<>> /\ Get(ns, geom, "material", <<>>) # <<>>
    THEN DictSet(d, ns[geom].attr.mesh,
                 convert_name_from_mjcf_2_usd(MATERIAL_ \o ns[geom].attr.material))
    ELSE d
GeomMaterialLoop(ns, geom_elements) ==
    LET RECURSIVE Go(_, _)
        Go(d, i) ==
            IF i > Len(geom_elements) THEN d
            ELSE Go(GeomMaterialEntry(ns, d, geom_elements[i]), i + 1)
    IN  Go(<<>>, 1)
get_geom_material_map(ns) == GeomMaterialLoop(ns, SelectTag(ns, Iter(ns, ROOT), "geom"))

\* tree.write: the file holds the document of the tree, element by element
RECURSIVE write(_, _)
write(ns, e) ==
    [tag |-> ns[e].tag, attr |-> ns[e].attr,
     kids |-> [i \in DOMAIN ns[e].kids |-> write(ns, ns[e].kids[i])]]
\* a file: missing, holding a whole document, or cut off in the middle of one
NoDoc == [tag |-> "", attr |-> [k \in {} |-> 0], kids |-> <<>>]
File(doc) == [exists |-> TRUE, whole |-> TRUE, doc |-> doc]
ABSENT == [exists |-> FALSE, whole |-> FALSE, doc |-> NoDoc]
PARTIAL == [exists |-> TRUE, whole |-> FALSE, doc |-> NoDoc]
\* what can go wrong with tree.write(self.xml_path): nothing, the file cannot
\* be opened for writing, or the write stops after the file was truncated
WriteFaults == {"none", "open", "write"}
\* save_xml under a fault: [val, file, io]; every Exception is caught
save_xml_AlwaysTrue(ns, file, fault) ==
    [val |-> TRUE,
     file |-> IF fault = "none" THEN File(write(ns, ROOT))
              ELSE IF fault = "open" THEN file ELSE PARTIAL,
     io |-> IF fault = "none" THEN "written" ELSE "failed"]
save_xml(ns, file, fault) ==
    IF fault = "none"
    THEN [val |-> TRUE, file |-> File(write(ns, ROOT)), io |-> "written"]
    ELSE [val |-> FALSE, file |-> IF fault = "open" THEN file ELSE PARTIAL,
          io |-> "failed"]

\* mjcf_to_usd: the calls on the handler in the order of the function body;
\* the USD import, fix-up and save calls between them are other programs
FirstStage == "preprocess_refquat_in_meshes"
StageAfter_JointsBeforeExpand(stage) ==
    CASE stage = "preprocess_refquat_in_meshes" -> "get_joints"
      [] stage = "get_joints" -> "expand_replicates_fields"
      [] stage = "expand_replicates_fields" -> "fix_site_placement"
      [] stage = "fix_site_placement" -> "save_xml"
      [] stage = "save_xml" -> "get_materials"
      [] stage = "get_materials" -> "get_geom_material_map"
      [] stage = "get_geom_material_map" -> "get_density"
      [] stage = "get_density" -> "save_as_stage"
StageAfter(stage) ==
    CASE stage = "preprocess_refquat_in_meshes" -> "expand_replicates_fields"
      [] stage = "expand_replicates_fields" -> "fix_site_placement"
      [] stage = "fix_site_placement" -> "save_xml"
      [] stage = "save_xml" -> "get_joints"
      [] stage = "get_joints" -> "get_materials"
      [] stage = "get_materials" -> "get_geom_material_map"
      [] stage = "get_geom_material_map" -> "get_density"
      [] stage = "get_density" -> "save_as_stage"
\* an exception leaves the with block at once (nothing in mjcf_to_usd catches)
After_Swallow(stage, raised) == StageAfter(stage)
After(stage, raised) == IF raised THEN "unwind" ELSE StageAfter(stage)

--------------------------------------------------------------------------
(* The documents a handler is constructed on (ET.parse of the file) *)

NoAttr == [k \in {} |-> 0]
E(tag, attr, kids) == [tag |-> tag, attr |-> attr, kids |-> kids]
\* an optional attribute: o is <<>> (absent) or <<value>>
Opt(a, o) == IF o = <<>> THEN NoAttr ELSE (a :> o[1])

\* ET.parse: the nested document becomes the node table, ids in document order
RECURSIVE Parse(_, _)
ParseKids(ns, shapes, parent) ==
    LET RECURSIVE Go(_, _)
        Go(m, i) ==
            IF i > Len(shapes) THEN m
            ELSE Go(Attach(Parse(m, shapes[i]), parent), i + 1)
    IN  Go(ns, 1)
Parse(ns, shape) ==
    [ns |-> ParseKids(Append(ns, [tag |-> shape.tag, attr |-> shape.attr, kids |-> <<>>]),
                      shape.kids, Len(ns) + 1),
     id |-> Len(ns) + 1]

\* k quarter turns written in the unit of the document
Ang(k, unit) == IF unit = "radian" THEN <<0, k>> ELSE <<90 * k, 0>>
Angs(ks, unit) == [i \in DOMAIN ks |-> Ang(ks[i], unit)]

Compiler(unit) ==
    CASE unit = "none"    -> <<>>
      [] unit = "noattr"  -> <<E("compiler", NoAttr, <<>>)>>
      [] unit = "degree"  -> <<E("compiler", [angle |-> DEGREE], <<>>)>>
      [] unit = "Degree"  -> <<E("compiler", [angle |-> <<"D", "e", "g", "r", "e", "e">>], <<>>)>>
      [] unit = "radian"  -> <<E("compiler", [angle |-> RADIAN], <<>>)>>
      [] unit = "deg"     -> <<E("compiler", [angle |-> <<"d", "e", "g">>], <<>>)>>

Mujoco(unit, assets, wbkids) ==
    E("mujoco", NoAttr, Compiler(unit) \o assets \o <<E("worldbody", NoAttr, wbkids)>>)

Geom(name, pos, quat) ==
    E("geom", Opt("name", name) @@ Opt("pos", pos) @@ Opt("quat", quat), <<>>)

\* a <replicate> block; eulerqt is <<>> or <<the three quarter-turn counts>>
Rep(count, offset, eulerqt, unit, kids) ==
    E("replicate",
      Opt("count", count) @@ Opt("offset", offset)
        @@ (IF eulerqt = <<>> THEN NoAttr ELSE ("euler" :> Angs(eulerqt[1], unit))),
      kids)

Counts == {<<>>, <<-1>>, <<0>>} \cup {<<c>> : c \in 1..MaxCount}

GA == Geom(<<<<"a">>>>, <<<<1, 0, 0>>>>, <<<<1, 0, 0, 1>>>>)
GB == Geom(<<<<"b">>>>, <<<<0, 1, 0>>>>, <<>>)
GO == Geom(<<<<"a">>>>, <<>>, <<>>)
GN == Geom(<<>>, <<<<1, 0, 0>>>>, <<>>)

\* one block under worldbody
DocsBlock ==
    {Mujoco("none", <<>>, <<Rep(c, o, e, "none", k)>>) :
        c \in Counts, o \in {<<>>, <<<<1, 0, 0>>>>},
        e \in {<<>>, <<<<0, 0, 1>>>>}, k \in {<<GA>>, <<GA, GB>>, <<GO>>}}
    \cup
    {Mujoco(u, <<>>, <<Rep(<<MaxCount>>, o, e, u, k)>>) :
        u \in {"degree", "radian"}, o \in {<<<<1, 0, 0>>>>, <<<<0, 2, -1>>>>},
        e \in {<<<<0, 0, 1>>>>, <<<<1, 0, 0>>>>, <<<<1, 1, 0>>>>}, k \in {<<GA>>, <<GA, GB>>}}
    \cup
    {Mujoco("none", <<>>, <<Rep(<<c>>, <<<<1, 0, 0>>>>, <<<<0, 0, 1>>>>, "none", k)>>) :
        c \in {1, 2}, k \in {<<>>, <<GN>>, <<GN, GA>>}}

\* several children of worldbody: blocks next to each other, next to plain
\* elements, and inside a body
GP == Geom(<<<<"p">>>>, <<<<1, 0, 0>>>>, <<>>)
TopItems ==
    { Rep(<<2>>, <<<<1, 0, 0>>>>, <<>>, "none", <<GP>>),
      Rep(<<>>, <<>>, <<<<0, 0, 1>>>>, "none", <<GP>>),
      Rep(<<2>>, <<>>, <<>>, "none", <<Geom(<<<<"q">>>>, <<>>, <<>>)>>),
      Geom(<<<<"g">>>>, <<>>, <<>>),
      Geom(<<<<"p", "_", "0">>>>, <<>>, <<>>),
      E("body", [name |-> <<"b">>],
        << Rep(<<2>>, <<>>, <<>>, "none", <<Geom(<<<<"c">>>>, <<>>, <<>>), Geom(<<>>, <<>>, <<>>)>>),
           Rep(<<>>, <<>>, <<>>, "none", <<Geom(<<<<"c">>>>, <<>>, <<>>)>>) >>) }
RECURSIVE SeqsUpTo(_, _)
SeqsUpTo(S, n) ==
    IF n = 0 THEN {<<>>}
    ELSE LET T == SeqsUpTo(S, n - 1) IN T \cup {Append(t, x) : t \in T, x \in S}
DocsTop == {Mujoco("none", <<>>, w) : w \in SeqsUpTo(TopItems, MaxTop) \ {<<>>}}

\* a block inside a block, and a block inside a body inside a block
DocsNested ==
    {Mujoco("none", <<>>,
        <<Rep(<<m>>, <<<<0, 1, 0>>>>, e, "none",
              <<Rep(<<n>>, <<<<1, 0, 0>>>>, e, "none", k)>>)>>) :
        m \in 1..2, n \in 1..2, e \in {<<>>, <<<<0, 0, 1>>>>}, k \in {<<GA>>, <<GA, GB>>}}
    \cup
    {Mujoco("none", <<>>,
        <<Rep(<<m>>, <<<<0, 1, 0>>>>, <<>>, "none",
              <<E("body", [name |-> <<"b">>],
                  <<GB, Rep(<<n>>, <<<<1, 0, 0>>>>, <<>>, "none", <<GA>>)>>)>>)>>) :
        m \in 1..2, n \in 1..2}

\* bodies with and without a child body named "object", and their sites
Site(n) == E("site", [name |-> n], <<>>)
Obj(kids) == E("body", [name |-> OBJECT], kids)
SiteItems ==
    { Site(<<"s", "1">>), Site(<<"s", "2">>), Obj(<<>>),
      Obj(<<Site(<<"s", "0">>), Obj(<<>>)>>) }
BodyX == E("body", [name |-> <<"x">>], <<Site(<<"s", "3">>)>>)
DocsSite ==
    {Mujoco("none", <<>>, <<E("body", [name |-> <<"P">>], k)>>) :
        k \in SeqsUpTo(SiteItems, 3) \ {<<>>}}
    \cup {Mujoco("none", <<>>, <<E("body", [name |-> <<"P">>], k)>>) :
            k \in {<<BodyX>>, <<Site(<<"s", "1">>), BodyX, Obj(<<>>)>>,
                   <<Site(<<"s", "1">>), Obj(<<BodyX>>)>>}}
    \cup {Mujoco("none", <<>>, <<Site(<<"s", "1">>), Obj(<<>>)>>)}

\* the orientation attributes of an element: any subset of quat, axisangle,
\* euler and eulerseq, each with a value that stands for a different rotation
OrientAttr(S, unit) ==
    (IF "quat" \in S THEN ("quat" :> <<1, 1, 0, 0>>) ELSE NoAttr)
    @@ (IF "axisangle" \in S
        THEN ("axisangle" :> <<ZERO, ZERO, <<2, 0>>, Ang(1, unit)>>) ELSE NoAttr)
    @@ (IF "euler" \in S THEN ("euler" :> Angs(<<1, 0, 1>>, unit)) ELSE NoAttr)
    @@ (IF "eulerseq" \in S THEN ("eulerseq" :> <<"X", "Y", "Z">>) ELSE NoAttr)
Orients(unit) ==
    {OrientAttr(S, unit) : S \in SUBSET {"quat", "axisangle", "euler", "eulerseq"}}
    \cup {OrientAttr({"euler"}, unit) @@ ("quat" :> <<>>),
          OrientAttr({"euler"}, unit) @@ ("quat" :> <<1, 0, 0>>),
          OrientAttr({"euler"}, unit) @@ ("axisangle" :> <<ZERO, ZERO, ZERO, Ang(1, unit)>>),
          ("euler" :> Angs(<<1, 0>>, unit)),
          ("quat" :> <<0, 0, 2, 0>>)}

Mesh(name, refquat) == E("mesh", Opt("name", name) @@ Opt("refquat", refquat), <<>>)
MA == <<"m", ".", "a">>
MB == <<"m", "-", "a">>
MN == <<"n">>
Assets(r) ==
    { <<>>,
      <<E("asset", NoAttr, <<Mesh(<<MA>>, <<r>>)>>)>>,
      <<E("asset", NoAttr, <<Mesh(<<MA>>, <<r>>), Mesh(<<MB>>, <<>>)>>)>>,
      <<E("asset", NoAttr, <<Mesh(<<MB>>, <<>>), Mesh(<<MA>>, <<r>>)>>)>>,
      <<E("asset", NoAttr, <<Mesh(<<>>, <<r>>), Mesh(<<MA>>, <<>>)>>)>>,
      <<E("asset", NoAttr, <<Mesh(<<MN>>, <<>>)>>), E("asset", NoAttr, <<Mesh(<<MA>>, <<r>>)>>)>> }
MeshGeom(mesh, orient) ==
    E("body", [name |-> <<"b">>],
      <<E("geom", [name |-> <<"g">>] @@ Opt("mesh", mesh) @@ orient, <<>>)>>)
DocsRef ==
    {Mujoco("none", a, <<MeshGeom(m, o)>>) :
        a \in Assets(<<1, 0, 0, 1>>), m \in {<<>>, <<MA>>, <<MB>>, <<MN>>},
        o \in {NoAttr, ("quat" :> <<1, 1, 0, 0>>)}}
    \cup
    UNION {{Mujoco(u, a, <<MeshGeom(<<MA>>, o)>>) :
              a \in {<<E("asset", NoAttr, <<Mesh(<<MA>>, <<<<1, 0, 0, 1>>>>)>>)>>},
              o \in Orients(u)} : u \in {"none", "radian"}}
    \cup
    {Mujoco("none", <<E("asset", NoAttr, <<Mesh(<<MA>>, <<r>>)>>)>>, <<MeshGeom(<<MA>>, o)>>) :
        r \in {<<0, 1, 0, 0>>, <<2, 0, 0, 0>>, <<0, 0, 0, 0>>, <<1, 0, 0>>, <<>>},
        o \in {NoAttr, ("quat" :> <<1, 1, 0, 0>>), ("euler" :> Angs(<<1, 0, 1>>, "none"))}}

\* the spellings of the compiler's angle attribute
DocsUnit ==
    {Mujoco(u, <<>>, <<Rep(<<2>>, <<<<1, 0, 0>>>>, <<>>, u, <<GA>>)>>) :
        u \in {"noattr", "Degree", "deg"}}

\* geoms with a class, joints, and the defaults sections that give classes a
\* density: "col" and "acol" have one ("dcol" is nested in "acol"), "vis" is no
\* collision class; "ecol" has an empty density, "ucol" none, "ncol" no geom
GC(class) == E("geom", [class |-> class], <<>>)
Joint(attr) == E("joint", attr, <<>>)
DefaultOf(class, geomattr) ==
    E("default", Opt("class", class), <<E("geom", geomattr, <<>>)>>)
DefaultSecs ==
    << E("default", NoAttr,
         << DefaultOf(<<<<"v", "i", "s">>>>, [density |-> <<3>>]),
            DefaultOf(<<COL>>, [density |-> <<500>>]),
            E("default", [class |-> <<"a", "c", "o", "l">>],
              << E("geom", [density |-> <<7>>], <<>>),
                 DefaultOf(<<<<"d", "c", "o", "l">>>>, [density |-> <<8>>]) >>) >>),
       E("default", NoAttr,
         << DefaultOf(<<<<"e", "c", "o", "l">>>>, [density |-> <<>>]),
            DefaultOf(<<>>, [density |-> <<9>>]),
            E("default", [class |-> <<"n", "c", "o", "l">>], <<>>),
            DefaultOf(<<<<"u", "c", "o", "l">>>>, NoAttr),
            DefaultOf(<<COL>>, [density |-> <<500>>]) >>) >>
JJ == <<"j">>
BodyItems ==
    << GC(COL), GC(<<"a", "c", "o", "l">>), GC(<<"u", "c", "o", "l">>), GC(<<"v", "i", "s">>),
       GC(<<"d", "c", "o", "l">>),
       Joint([name |-> JJ, damping |-> <<1>>]),
       Joint([name |-> JJ, stiffness |-> <<2>>]),
       Joint([damping |-> <<4>>]),
       E("body", [name |-> <<"k">>],
         <<GC(<<"a", "c", "o", "l">>), Joint([name |-> JJ, frictionloss |-> <<3>>])>>) >>
QueryWorlds ==
    << <<E("body", NoAttr, <<GC(COL), Joint([name |-> JJ])>>)>>,
       <<E("body", [name |-> <<"A">>], <<GC(COL)>>), E("body", [name |-> <<"A">>], <<GC(<<"v", "i", "s">>)>>)>>,
       <<GC(COL), Joint([name |-> JJ]), E("body", [name |-> <<"A">>], <<Joint([name |-> <<>>])>>)>>,
       <<E("body", [name |-> <<"A">>],
           <<E("body", [name |-> <<"k">>], <<Joint([name |-> JJ, damping |-> <<1>>])>>),
             Joint([name |-> JJ, damping |-> <<2>>]),
             E("geom", NoAttr, <<>>)>>)>>,
       <<Rep(<<2>>, <<>>, <<>>, "none",
             <<E("body", [name |-> <<"b">>], <<GC(COL), Joint([name |-> JJ])>>)>>)>> >>
\* the children of body A: the items at the chosen places of BodyItems
BodyKids(ix) == [i \in DOMAIN ix |-> BodyItems[ix[i]]]
\* no defaults section (0) or one of DefaultSecs
DefaultsIf(d) == IF d = 0 THEN <<>> ELSE <<DefaultSecs[d]>>
\* the documents the queries are asked on; doc is the handler's parsed file
DocsQuery(doc) ==
    \/ \E d \in DOMAIN DefaultSecs, ix \in SeqsUpTo(DOMAIN BodyItems, MaxBodyKids) :
           doc = Parse(<<>>, Mujoco("none", DefaultsIf(d),
                                    <<E("body", [name |-> <<"A">>], BodyKids(ix))>>)).ns
    \/ \E d \in 0..Len(DefaultSecs), w \in DOMAIN QueryWorlds :
           doc = Parse(<<>>, Mujoco("none", DefaultsIf(d), QueryWorlds[w])).ns
    \/ \E u \in {"none", "noattr", "degree", "Degree", "radian", "deg"} :
           doc = Parse(<<>>, Mujoco(u, <<>>, <<>>)).ns
    \/ \E d \in 0..Len(DefaultSecs) : doc = Parse(<<>>, E("mujoco", NoAttr, DefaultsIf(d))).ns

\* the documents mjcf_to_usd is run on: assets with a mesh, a texture and a
\* material, a collision class, and worlds that each stage rewrites or rejects
TA == <<"t">>
Texture(name, file) == E("texture", [name |-> name, file |-> file, type |-> <<"2", "d">>], <<>>)
Material(name, texture) == E("material", Opt("name", name) @@ Opt("texture", texture), <<>>)
PipeAssets ==
    { <<>>,
      <<E("asset", NoAttr, <<Mesh(<<MA>>, <<<<1, 0, 0, 1>>>>), Texture(TA, <<"f">>),
                             Material(<<MA>>, <<TA>>)>>)>>,
      <<E("asset", NoAttr, <<Mesh(<<MA>>, <<<<1, 0, 0, 1>>>>), Material(<<MA>>, <<MN>>)>>)>>,
      <<E("asset", NoAttr, <<Mesh(<<MA>>, <<<<1, 0, 0>>>>), Material(<<MA>>, <<>>)>>)>> }
PipeDefaults ==
    { <<>>, <<E("default", NoAttr, <<DefaultOf(<<COL>>, [density |-> <<500>>])>>)>> }
BodyA ==
    E("body", [name |-> <<"A">>],
      <<E("geom", [mesh |-> MA, material |-> MA, class |-> COL], <<>>)>>)
BodyJ == E("body", [name |-> <<"b">>], <<Joint([name |-> JJ, damping |-> <<1>>])>>)
PipeWorlds ==
    { <<BodyA, Rep(<<2>>, <<<<1, 0, 0>>>>, <<>>, "none", <<BodyJ>>)>>,
      <<BodyA, Rep(<<2>>, <<>>, <<<<1, 0>>>>, "none", <<BodyJ>>)>>,
      <<BodyA, Rep(<<>>, <<>>, <<>>, "none", <<BodyJ>>)>>,
      <<BodyA, E("body", [name |-> <<"P">>], <<Site(<<"s", "1">>), Obj(<<>>)>>)>>,
      <<BodyJ>> }
DocsPipe ==
    {E("mujoco", NoAttr, a \o d \o <<E("worldbody", NoAttr, w)>>) :
        a \in PipeAssets, d \in PipeDefaults, w \in PipeWorlds}

Docs == DocsBlock \cup DocsTop \cup DocsNested \cup DocsSite \cup DocsRef \cup DocsUnit

--------------------------------------------------------------------------
(* The handler as a state machine: its methods are called in any order *)

Ret(op, elem, raised, val, modified) ==
    [op |-> op, elem |-> elem, raised |-> raised, val |-> val, modified |-> modified]

\* the handler was constructed on the file mjcf; mjcf_to_usd is not running
Idle ==
    /\ disk = [mjcf |-> File(write(nodes, ROOT)), tmp |-> ABSENT]
    /\ io = "none"
    /\ pc = "idle"
    /\ log = <<>>

\* XMLHandler.__init__
Init ==
    /\ \E d \in Docs : nodes = Parse(<<>>, d).ns
    /\ replicate_name_list = <<>>
    /\ ret = Ret("init", 0, FALSE, <<>>, FALSE)
    /\ expands = 0
    /\ Idle

PreprocessDone(h) ==
    /\ nodes' = h.ns
    /\ ret' = Ret("preprocess_refquat_in_meshes", 0, h.err, <<>>, FALSE)
    /\ UNCHANGED <<replicate_name_list, expands>>
    /\ UNCHANGED env
Preprocess ==
    PreprocessDone(preprocess_refquat_in_meshes(H(nodes, replicate_name_list, FALSE)))

ExpandDone(h) ==
    /\ nodes' = h.ns
    /\ replicate_name_list' = h.names
    /\ ret' = Ret("expand_replicates_fields", 0, h.err, <<>>, FALSE)
    /\ expands' = expands + 1
    /\ UNCHANGED env
Expand ==
    /\ expands < MaxExpands
    /\ ExpandDone(expand_replicates_fields(H(nodes, replicate_name_list, FALSE)))

FixSiteDone(f) ==
    /\ nodes' = f.ns
    /\ ret' = Ret("fix_site_placement", 0, FALSE, <<>>, f.modified)
    /\ UNCHANGED <<replicate_name_list, expands>>
    /\ UNCHANGED env
FixSite == FixSiteDone(fix_site_placement(nodes))

GetQuatDone(elem, r) ==
    /\ ret' = Ret("get_quat", elem, r.raised, r.val, FALSE)
    /\ UNCHANGED <<nodes, replicate_name_list, expands>>
    /\ UNCHANGED env
GetQuat == \E elem \in Live(nodes) : GetQuatDone(elem, get_quat(nodes, elem))

Next == Preprocess \/ Expand \/ FixSite \/ GetQuat

Spec == Init /\ [][Next]_vars

--------------------------------------------------------------------------
(* The handler's queries, on documents with defaults, classes and joints *)

InitQuery ==
    /\ DocsQuery(nodes)
    /\ replicate_name_list = <<>>
    /\ ret = Ret("init", 0, FALSE, <<>>, FALSE)
    /\ expands = 0
    /\ Idle

Answer(op, r) ==
    /\ ret' = Ret(op, 0, r.raised, r.val, FALSE)
    /\ UNCHANGED <<nodes, replicate_name_list, expands>>
    /\ UNCHANGED env
IsAngleInDegrees == Answer("is_angle_in_degrees", Return(is_angle_in_degrees(nodes)))
GetJoints == Answer("get_joints", Return(get_joints(nodes)))
GetDensity == Answer("get_density", get_density(nodes))

NextQuery == Expand \/ IsAngleInDegrees \/ GetJoints \/ GetDensity

SpecQuery == InitQuery /\ [][NextQuery]_vars

--------------------------------------------------------------------------
(* mjcf_to_usd: one run of the converter on the file mjcf *)

InitPipe ==
    /\ \E d \in DocsPipe : disk = [mjcf |-> File(d), tmp |-> ABSENT]
    /\ nodes = <<>>
    /\ replicate_name_list = <<>>
    /\ ret = Ret("init", 0, FALSE, <<>>, FALSE)
    /\ expands = 0
    /\ io = "none"
    /\ pc = "idle"
    /\ log = <<>>

\* shutil.copy2(mjcf_path, tmp_mjcf_path) and XMLHandler(tmp_mjcf_path)
PipeStart ==
    /\ pc = "idle"
    /\ disk' = [disk EXCEPT !.tmp = disk.mjcf]
    /\ nodes' = Parse(<<>>, disk.mjcf.doc).ns
    /\ replicate_name_list' = <<>>
    /\ ret' = Ret("__init__", 0, FALSE, <<>>, FALSE)
    /\ pc' = FirstStage
    /\ UNCHANGED <<expands, io, log>>

\* one call on the handler inside the with block
Stage(stage, raised) ==
    /\ pc = stage
    /\ log' = Append(log, stage)
    /\ pc' = After(stage, raised)

PipePreprocessDone(h) ==
    /\ Stage("preprocess_refquat_in_meshes", h.err)
    /\ nodes' = h.ns
    /\ ret' = Ret("preprocess_refquat_in_meshes", 0, h.err, <<>>, FALSE)
    /\ UNCHANGED <<replicate_name_list, expands, disk, io>>
PipePreprocess ==
    PipePreprocessDone(preprocess_refquat_in_meshes(H(nodes, replicate_name_list, FALSE)))

PipeExpandDone(h) ==
    /\ Stage("expand_replicates_fields", h.err)
    /\ nodes' = h.ns
    /\ replicate_name_list' = h.names
    /\ ret' = Ret("expand_replicates_fields", 0, h.err, <<>>, FALSE)
    /\ expands' = expands + 1
    /\ UNCHANGED <<disk, io>>
PipeExpand ==
    PipeExpandDone(expand_replicates_fields(H(nodes, replicate_name_list, FALSE)))

PipeFixSiteDone(f) ==
    /\ Stage("fix_site_placement", FALSE)
    /\ nodes' = f.ns
    /\ ret' = Ret("fix_site_placement", 0, FALSE, <<>>, f.modified)
    /\ UNCHANGED <<replicate_name_list, expands, disk, io>>
PipeFixSite == PipeFixSiteDone(fix_site_placement(nodes))

\* xml_handler.save_xml(); its result is not looked at
PipeSaveXmlDone(s) ==
    /\ Stage("save_xml", FALSE)
    /\ disk' = [disk EXCEPT !.tmp = s.file]
    /\ io' = s.io
    /\ ret' = Ret("save_xml", 0, FALSE, s.val, FALSE)
    /\ UNCHANGED <<nodes, replicate_name_list, expands>>
PipeSaveXml == \E fault \in WriteFaults : PipeSaveXmlDone(save_xml(nodes, disk.tmp, fault))

PipeAnswer(stage, r) ==
    /\ Stage(stage, r.raised)
    /\ ret' = Ret(stage, 0, r.raised, r.val, FALSE)
    /\ UNCHANGED <<nodes, replicate_name_list, expands, disk, io>>
PipeGetJoints == PipeAnswer("get_joints", Return(get_joints(nodes)))
PipeGetMaterials == PipeAnswer("get_materials", get_materials(nodes))
PipeGetGeomMaterialMap ==
    PipeAnswer("get_geom_material_map", Return(get_geom_material_map(nodes)))
PipeGetDensity == PipeAnswer("get_density", get_density(nodes))

\* context.save_as_stage(usd_path) and, if it worked and the caller does not
\* keep the temporary file, os.remove(tmp_mjcf_path)
PipeSaveStage ==
    /\ pc = "save_as_stage"
    /\ \E save_result \in BOOLEAN, need_save_tmp_xml \in BOOLEAN :
          /\ disk' = IF save_result /\ ~need_save_tmp_xml
                     THEN [disk EXCEPT !.tmp = ABSENT] ELSE disk
          /\ ret' = Ret("save_as_stage", 0, FALSE, save_result, FALSE)
    /\ pc' = "return"
    /\ UNCHANGED <<nodes, replicate_name_list, expands, io, log>>

\* XMLHandler.__exit__, on return and on an exception alike
PipeExit ==
    /\ pc \in {"return", "unwind"}
    /\ nodes' = <<>>
    /\ ret' = Ret("__exit__", 0, pc = "unwind", FALSE, FALSE)
    /\ pc' = IF pc = "unwind" THEN "raised" ELSE "done"
    /\ UNCHANGED <<replicate_name_list, expands, disk, io, log>>

NextPipe ==
    \/ PipeStart \/ PipePreprocess \/ PipeExpand \/ PipeFixSite \/ PipeSaveXml
    \/ PipeGetJoints \/ PipeGetMaterials \/ PipeGetGeomMaterialMap \/ PipeGetDensity
    \/ PipeSaveStage \/ PipeExit

SpecPipe == InitPipe /\ [][NextPipe]_vars

--------------------------------------------------------------------------
(* What the claims speak about *)

Worldbody(ns) == FindDeep(ns, ROOT, "worldbody")
Expanded(r) == r.op = "expand_replicates_fields" /\ ~r.raised
Named(ns) == {e \in Live(ns) : Has(ns, e, "name")}
NamesDistinct(ns) ==
    \A e1, e2 \in Named(ns) : e1 # e2 => ns[e1].attr.name # ns[e2].attr.name

\* the document is one <replicate> block under worldbody whose children are
\* plain template elements; Block is that block
Block(ns) == ns[Worldbody(ns)].kids[1]
SingleBlock(ns) ==
    /\ Worldbody(ns) # 0
    /\ Len(ns[Worldbody(ns)].kids) = 1
    /\ ns[Block(ns)].tag = "replicate"
    /\ \A k \in Range(ns[Block(ns)].kids) : ns[k].tag # "replicate" /\ ns[k].kids = <<>>
BlockCount(ns) == Get(ns, Block(ns), "count", 1)
BlockOffset(ns) == Get(ns, Block(ns), "offset", <<0, 0, 0>>)
\* the rotation increment of the block
BlockRot(ns) ==
    RFromEuler(XYZ, Get(ns, Block(ns), "euler", <<ZERO, ZERO, ZERO>>), is_angle_in_degrees(ns))
\* rot_0 = identity, rot_i = increment o rot_(i-1)
RECURSIVE RotPow(_, _)
RotPow(r, i) == IF i = 0 THEN IDENT ELSE RMul(r, RotPow(r, i - 1))
\* the orientation of an element as a rotation, from its quat attribute
QuatRot(ns, e) == RFromQuat(convert_quat_mjcf_2_scipy(Get(ns, e, "quat", <<1, 0, 0, 0>>)))
\* instance i of the j-th template child, among the children of worldbody after
\* the expansion
Instance(ns, after, j, i) == after[Worldbody(after)].kids[(j - 1) * BlockCount(ns) + i + 1]

(* C1: after expand_replicates_fields returns, no element with tag 'replicate'
   remains in the document, wherever the blocks were. *)
C1_NoReplicateLeft ==
    Expanded(ret) => \A e \in Live(nodes) : nodes[e].tag # "replicate"

(* C2: for every template child j of a block and every index i, instance i is
   rotated by the increment composed i times; instance 0 keeps the template's
   orientation. *)
C2_EveryTemplateRotation ==
    [][ (Expanded(ret') /\ SingleBlock(nodes) /\ BlockCount(nodes) >= 1) =>
          \A j \in DOMAIN nodes[Block(nodes)].kids : \A i \in 0..(BlockCount(nodes) - 1) :
              SameRot(QuatRot(nodes', Instance(nodes, nodes', j, i)),
                      RMul(RotPow(BlockRot(nodes), i),
                           QuatRot(nodes, nodes[Block(nodes)].kids[j]))) ]_vars

(* C3: a block with count n, offset o, increment r and one template child with
   position p and orientation q expands to exactly n new elements; instance i
   has pos = o*i + rot_i.apply(p) and quat = rot_i o q, scalar first. *)
OneTemplate(ns) == SingleBlock(ns) /\ Len(ns[Block(ns)].kids) = 1 /\ BlockCount(ns) >= 1
C3_Pose(ns, after, i) ==
    /\ Instance(ns, after, 1, i) \notin DOMAIN ns
    /\ after[Instance(ns, after, 1, i)].attr.pos =
          Vec3Add(<<BlockOffset(ns)[1] * i, BlockOffset(ns)[2] * i, BlockOffset(ns)[3] * i>>,
                  RApply(RotPow(BlockRot(ns), i),
                         Get(ns, ns[Block(ns)].kids[1], "pos", <<0, 0, 0>>)))
    /\ SameRot(QuatRot(after, Instance(ns, after, 1, i)),
               RMul(RotPow(BlockRot(ns), i), QuatRot(ns, ns[Block(ns)].kids[1])))
C3_InstancePoses ==
    [][ (Expanded(ret') /\ OneTemplate(nodes)) =>
          /\ Len(nodes'[Worldbody(nodes')].kids) = BlockCount(nodes)
          /\ \A i \in 0..(BlockCount(nodes) - 1) : C3_Pose(nodes, nodes', i) ]_vars
\* count=3, offset=(1,0,0), euler=(0,0,90 deg), p=0: the three instances
C3_Witness ==
    /\ Expanded(ret)
    /\ Worldbody(nodes) # 0
    /\ \A k \in Range(nodes[Worldbody(nodes)].kids) : Has(nodes, k, "pos") /\ Has(nodes, k, "quat")
    /\ [i \in DOMAIN nodes[Worldbody(nodes)].kids |->
           <<nodes[nodes[Worldbody(nodes)].kids[i]].attr.pos,
             nodes[nodes[Worldbody(nodes)].kids[i]].attr.quat>>]
         = << <<<<0, 0, 0>>, <<1, 0, 0, 0>>>>,
              <<<<1, 0, 0>>, <<1, 0, 0, 1>>>>,
              <<<<2, 0, 0>>, <<0, 0, 0, 1>>>> >>

(* C4: from a document whose names are pairwise distinct, the expansion and
   its renaming pass leave no two elements of the document with the same name. *)
C4_NamesStayUnique ==
    [][ (Expanded(ret') /\ NamesDistinct(nodes)) => NamesDistinct(nodes') ]_vars

(* C5: the k-th registered instance (in creation order, over all blocks whose
   products are registered) whose name at registration is N is renamed exactly
   N_k, k counted from 0; an element without a name is never given one. *)
\* the document and the registration list as the traversal leaves them, before
\* the renaming pass
Registered(ns, names) ==
    IF Worldbody(ns) = 0 THEN H(ns, names, FALSE)
    ELSE traverse_worldbody(H(ns, names, FALSE), Worldbody(ns))
\* how many of the first j-1 registered instances carry the name of the j-th
Earlier(mid, j) ==
    Cardinality({i \in 1..(j - 1) :
        mid.ns[mid.names[i]].attr.name = mid.ns[mid.names[j]].attr.name})
C5_Renamed(mid, after) ==
    /\ \A j \in DOMAIN mid.names :
          after[mid.names[j]].attr.name =
              mid.ns[mid.names[j]].attr.name \o <<"_">> \o Str(Earlier(mid, j))
    /\ \A e \in DOMAIN after : ~Has(mid.ns, e, "name") => ~Has(after, e, "name")
    /\ \A e \in DOMAIN after \ Range(mid.names) : after[e].attr = mid.ns[e].attr
C5_InstanceNames ==
    [][ Expanded(ret') => C5_Renamed(Registered(nodes, replicate_name_list), nodes') ]_vars
\* three instances of the name "c" out of two blocks: c_0, c_1 and c_2
C5_Witness ==
    /\ Expanded(ret)
    /\ \E e0, e1, e2 \in Named(nodes) :
          /\ nodes[e0].attr.name = <<"c", "_", "0">>
          /\ nodes[e1].attr.name = <<"c", "_", "1">>
          /\ nodes[e2].attr.name = <<"c", "_", "2">>
    /\ \E e \in Live(nodes) : nodes[e].tag = "geom" /\ ~Has(nodes, e, "name")

(* C6: a replicate block whose count is not positive is rejected with an
   error; a block without a count is expanded once. *)
NonPositiveBlock(ns) ==
    \E e \in Live(ns) : ns[e].tag = "replicate" /\ Has(ns, e, "count") /\ ns[e].attr.count <= 0
C6_CountChecked ==
    [][ /\ (ret'.op = "expand_replicates_fields" /\ NonPositiveBlock(nodes)) => ret'.raised
        /\ (Expanded(ret') /\ SingleBlock(nodes) /\ ~Has(nodes, Block(nodes), "count")) =>
              Len(nodes'[Worldbody(nodes')].kids) = Len(nodes[Block(nodes)].kids) ]_vars

(* C7: after preprocess_refquat_in_meshes, every geom whose normalized mesh
   reference is in the refquat table has quat = g o r^-1, scalar first, where
   r is the reference orientation of the mesh and g is get_quat of the geom;
   with no orientation attribute on the geom the result is r^-1. *)
Preprocessed(r) == r.op = "preprocess_refquat_in_meshes" /\ ~r.raised
\* the mesh declarations that enter the refquat table, in document order
TableMeshes(ns) ==
    IF FindDeep(ns, ROOT, "asset") = 0 THEN <<>>
    ELSE SelectSeq(FindAll(ns, FindDeep(ns, ROOT, "asset"), "mesh"),
                   LAMBDA m : Has(ns, m, "name") /\ Has(ns, m, "refquat"))
MeshesOf(ns, key) ==
    SelectSeq(TableMeshes(ns), LAMBDA m : convert_name_from_mjcf_2_usd(ns[m].attr.name) = key)
InTable(ns, key) == MeshesOf(ns, key) # <<>>
\* the table's entry: the reference orientation of the last mesh of that name
RefQuatOf(ns, key) == ns[MeshesOf(ns, key)[Len(MeshesOf(ns, key))]].attr.refquat
MeshKey(ns, e) == convert_name_from_mjcf_2_usd(ns[e].attr.mesh)
\* the geoms the claim is about: the mesh is in the table with an orientation
CorrectedGeoms(ns) ==
    {e \in Live(ns) : /\ ns[e].tag = "geom" /\ Has(ns, e, "mesh")
                      /\ InTable(ns, MeshKey(ns, e))
                      /\ Len(RefQuatOf(ns, MeshKey(ns, e))) = 4}
NoOrientation(ns, e) ==
    ~Has(ns, e, "quat") /\ ~Has(ns, e, "axisangle") /\ ~Has(ns, e, "euler")
RefInverse(ns, e) == RInv(RFromQuat(convert_quat_mjcf_2_scipy(RefQuatOf(ns, MeshKey(ns, e)))))
C7_Corrected(ns, after, e) ==
    /\ Has(after, e, "quat")
    /\ Len(after[e].attr.quat) = 4
    /\ SameRot(RFromQuat(<<after[e].attr.quat[2], after[e].attr.quat[3],
                           after[e].attr.quat[4], after[e].attr.quat[1]>>),
               RMul(RFromQuat(convert_quat_mjcf_2_scipy(get_quat(ns, e).val)),
                    RefInverse(ns, e)))
    /\ NoOrientation(ns, e) => SameRot(QuatRot(after, e), RefInverse(ns, e))
C7_RefquatCorrection ==
    [][ Preprocessed(ret') => \A e \in CorrectedGeoms(nodes) : C7_Corrected(nodes, nodes', e) ]_vars
\* a geom with an euler orientation whose mesh is turned a quarter about z
\* ended with a composed quat that is neither of the two
C7_Witness ==
    /\ Preprocessed(ret)
    /\ \E e \in Live(nodes) :
          /\ nodes[e].tag = "geom" /\ Has(nodes, e, "mesh")
          /\ Has(nodes, e, "euler") /\ ~Has(nodes, e, "axisangle")
          /\ Has(nodes, e, "quat")
          /\ ~SameRot(QuatRot(nodes, e), IDENT)
          /\ ~SameRot(QuatRot(nodes, e),
                      RFromEuler(Get(nodes, e, "eulerseq", XYZ), nodes[e].attr.euler,
                                 is_angle_in_degrees(nodes)))

(* C8: after preprocess_refquat_in_meshes returns, no mesh declaration of the
   document carries a refquat attribute. *)
C8_RefquatRemoved ==
    Preprocessed(ret) =>
        \A e \in Live(nodes) : nodes[e].tag = "mesh" => ~Has(nodes, e, "refquat")

(* C9: fix_site_placement is idempotent: a second call changes nothing and
   returns False; after a call no body with a direct child body named 'object'
   has a direct child site; a body with no direct child body named 'object'
   keeps its children unchanged. *)
Fixed(r) == r.op = "fix_site_placement"
Bodies(ns) == {b \in Live(ns) : ns[b].tag = "body"}
ObjectKids(ns, b) ==
    SelectSeq(ns[b].kids, LAMBDA c : ns[c].tag = "body" /\ Get(ns, c, "name", <<>>) = OBJECT)
SiteKids(ns, b) == SelectSeq(ns[b].kids, LAMBDA c : ns[c].tag = "site")
NoMisplacedSite(ns) ==
    \A b \in Bodies(ns) : ObjectKids(ns, b) # <<>> => SiteKids(ns, b) = <<>>
SecondCallIdle ==
    (Fixed(ret) /\ Fixed(ret')) => (nodes' = nodes /\ ~ret'.modified)
C9_Idempotent ==
    [][ /\ SecondCallIdle
        /\ Fixed(ret') => NoMisplacedSite(nodes')
        /\ Fixed(ret') =>
              \A b \in Bodies(nodes) :
                  ObjectKids(nodes, b) = <<>> => nodes'[b].kids = nodes[b].kids ]_vars
(* C9, as the code has it: the same, except that a body with no direct child
   body named 'object' keeps its children in place and, when it is itself an
   'object' body, may have sites of its parent appended after them. *)
IsPrefix(s, t) == Len(s) <= Len(t) /\ SubSeq(t, 1, Len(s)) = s
ReceivedOnlySites(ns, after, b) ==
    /\ IsPrefix(ns[b].kids, after[b].kids)
    /\ \A i \in (Len(ns[b].kids) + 1)..Len(after[b].kids) :
          /\ after[after[b].kids[i]].tag = "site"
          /\ after[b].kids[i] \in Live(ns)
C9_IdempotentObjectReceives ==
    [][ /\ SecondCallIdle
        /\ Fixed(ret') => NoMisplacedSite(nodes')
        /\ Fixed(ret') =>
              \A b \in Bodies(nodes) :
                  ObjectKids(nodes, b) = <<>> =>
                      /\ ReceivedOnlySites(nodes, nodes', b)
                      /\ Get(nodes, b, "name", <<>>) # OBJECT => nodes'[b].kids = nodes[b].kids ]_vars
\* a site went down two levels, into an 'object' body inside an 'object' body,
\* and a further call left the tree alone
C9_Witness ==
    /\ Fixed(ret) /\ ~ret.modified
    /\ \E b \in Bodies(nodes) :
          /\ Get(nodes, b, "name", <<>>) = OBJECT
          /\ Get(nodes, Parent(nodes, b), "name", <<>>) = OBJECT
          /\ nodes[Parent(nodes, b)].tag = "body"
          /\ SiteKids(nodes, b) # <<>>
    /\ \E b \in Bodies(nodes) : Len(ObjectKids(nodes, b)) >= 2

(* C10: get_quat resolves the orientation by strict priority: quat verbatim
   (also next to axisangle or euler), else axisangle (also next to euler),
   else euler with the element's eulerseq or 'xyz', else [1,0,0,0]; the
   element is not modified. *)
\* the attributes that are present carry a value, and quat carries four numbers
WellFormed(ns, e) ==
    /\ \A a \in {"quat", "axisangle", "euler"} : Has(ns, e, a) => ns[e].attr[a] # <<>>
    /\ Has(ns, e, "quat") => Len(ns[e].attr.quat) = 4
ByPriority(ns, e) ==
    IF Has(ns, e, "quat") THEN Return(ns[e].attr.quat)
    ELSE IF Has(ns, e, "axisangle")
    THEN get_quat_axisangle(ns[e].attr.axisangle, is_angle_in_degrees(ns))
    ELSE IF Has(ns, e, "euler")
    THEN get_quat_euler(ns[e].attr.euler, Get(ns, e, "eulerseq", XYZ), is_angle_in_degrees(ns))
    ELSE Return(<<1, 0, 0, 0>>)
C10_Priority ==
    [][ ret'.op = "get_quat" =>
          /\ nodes' = nodes
          /\ WellFormed(nodes, ret'.elem) =>
                (ret'.raised = ByPriority(nodes, ret'.elem).raised
                 /\ ret'.val = ByPriority(nodes, ret'.elem).val) ]_vars
\* axisangle won over euler, and the two orientations differ
C10_Witness ==
    /\ ret.op = "get_quat" /\ ~ret.raised
    /\ ~Has(nodes, ret.elem, "quat")
    /\ Has(nodes, ret.elem, "axisangle") /\ Has(nodes, ret.elem, "euler")
    /\ ret.val = get_quat_axisangle(nodes[ret.elem].attr.axisangle, is_angle_in_degrees(nodes)).val
    /\ ~get_quat_euler(nodes[ret.elem].attr.euler, Get(nodes, ret.elem, "eulerseq", XYZ),
                       is_angle_in_degrees(nodes)).raised
    /\ ret.val # get_quat_euler(nodes[ret.elem].attr.euler, Get(nodes, ret.elem, "eulerseq", XYZ),
                                is_angle_in_degrees(nodes)).val

(* C11: get_quat raises whenever the orientation attribute it has to use is
   malformed: a present quat without exactly 4 values (an empty value
   included), else a present axisangle without exactly 4 values or with a zero
   axis, else a present euler without exactly 3 values; it never falls back to
   a lower-priority encoding or to the identity. *)
Malformed(ns, e) ==
    IF Has(ns, e, "quat") THEN Len(ns[e].attr.quat) # 4
    ELSE IF Has(ns, e, "axisangle")
    THEN \/ Len(ns[e].attr.axisangle) # 4
         \/ Norm3(Plain(SubSeq(ns[e].attr.axisangle, 1, 3))) = 0
    ELSE Has(ns, e, "euler") /\ Len(ns[e].attr.euler) # 3
C11_MalformedRaises ==
    [][ (ret'.op = "get_quat" /\ Malformed(nodes, ret'.elem)) => ret'.raised ]_vars

(* C12: is_angle_in_degrees returns degrees for every document except one
   whose compiler element sets angle to 'radian': without a compiler, without
   an angle attribute, and with any other angle value it answers degrees. *)
ExplicitRadian(ns) ==
    /\ Find(ns, ROOT, "compiler") # 0
    /\ Get(ns, Find(ns, ROOT, "compiler"), "angle", <<>>) = RADIAN
C12_DegreesUnlessRadian ==
    ret.op = "is_angle_in_degrees" => (ret.val = ~ExplicitRadian(nodes))

(* C13: get_density maps a named body to the density of the first of its
   direct geom children whose class contains 'col' and has a density in the
   class table; a body with no such geom, and a body without a name, have no
   entry; geoms of descendant bodies do not count for an ancestor. *)
\* the class table: the <default class=...> children of the defaults section
\* whose first geom carries a density; a later one of the same class wins
ClassDefaults(ns, class) ==
    IF FindDeep(ns, ROOT, "default") = 0 THEN <<>>
    ELSE SelectSeq(FindAll(ns, FindDeep(ns, ROOT, "default"), "default"),
                   LAMBDA d : /\ Get(ns, d, "class", <<>>) = class
                              /\ Find(ns, d, "geom") # 0
                              /\ Get(ns, Find(ns, d, "geom"), "density", <<>>) # <<>>)
KnownDensity(ns, class) == class # <<>> /\ ClassDefaults(ns, class) # <<>>
DensityOf(ns, class) ==
    ns[Find(ns, ClassDefaults(ns, class)[Len(ClassDefaults(ns, class))], "geom")].attr.density
\* the direct geom children that can give the body its density
CollisionGeoms(ns, b) ==
    SelectSeq(FindAll(ns, b, "geom"),
              LAMBDA g : /\ Contains(Get(ns, g, "class", <<>>), COL)
                         /\ KnownDensity(ns, ns[g].attr.class))
NamedBodies(ns) == {b \in Live(ns) : ns[b].tag = "body" /\ Has(ns, b, "name")}
OnlyOfItsName(ns, b) ==
    \A c \in NamedBodies(ns) : ns[c].attr.name = ns[b].attr.name => c = b
C13_DensityOfBody(ns, val, b) ==
    IF CollisionGeoms(ns, b) = <<>> THEN ns[b].attr.name \notin DOMAIN val
    ELSE /\ ns[b].attr.name \in DOMAIN val
         /\ val[ns[b].attr.name] = DensityOf(ns, ns[CollisionGeoms(ns, b)[1]].attr.class)
C13_BodyDensity ==
    (ret.op = "get_density" /\ ~ret.raised) =>
        /\ \A b \in NamedBodies(nodes) :
              OnlyOfItsName(nodes, b) => C13_DensityOfBody(nodes, ret.val, b)
        /\ \A n \in DOMAIN ret.val : \E b \in NamedBodies(nodes) : nodes[b].attr.name = n
\* body A: its first geom has a collision class without a density, the next
\* one gives 7; the geoms of its child body are not looked at
C13_Witness ==
    /\ ret.op = "get_density" /\ ~ret.raised
    /\ ret.val = (<<"A">> :> <<7>>)
    /\ \E b \in NamedBodies(nodes) :
          /\ nodes[b].attr.name = <<"A">>
          /\ Len(nodes[b].kids) = 2
          /\ Get(nodes, nodes[b].kids[1], "class", <<>>) = <<"u", "c", "o", "l">>

(* C14: in mjcf_to_usd the calls are made in the order reference-quaternion
   correction, replication expansion, site relocation, save_xml, and every
   metadata extraction runs after them, on the tree these stages produced *)
RewriteStages ==
    <<"preprocess_refquat_in_meshes", "expand_replicates_fields",
      "fix_site_placement", "save_xml">>
MetadataStages == {"get_joints", "get_materials", "get_geom_material_map", "get_density"}
C14_Order(l) ==
    /\ \A i \in DOMAIN l : i <= Len(RewriteStages) => l[i] = RewriteStages[i]
    /\ \A i \in DOMAIN l : i > Len(RewriteStages) => l[i] \in MetadataStages
\* the tree after the three rewriting stages, computed from the file
C14_PostExpansionTree(doc) ==
    fix_site_placement(
        expand_replicates_fields(
            preprocess_refquat_in_meshes(H(Parse(<<>>, doc).ns, <<>>, FALSE))).ns).ns
C14_StagesInOrder ==
    [][ /\ C14_Order(log')
        /\ ret'.op \in MetadataStages =>
              /\ nodes' = nodes
              /\ nodes = C14_PostExpansionTree(disk.mjcf.doc) ]_vars
\* all eight calls were made, on a document whose block was expanded into
\* two instances next to body A
C14_Witness ==
    /\ pc = "save_as_stage"
    /\ Len(log) = 8
    /\ ret.op = "get_density" /\ ~ret.raised
    /\ nodes # Parse(<<>>, disk.mjcf.doc).ns
    /\ Len(nodes[Worldbody(nodes)].kids) = 3
    /\ \A e \in Live(nodes) : nodes[e].tag # "replicate"

(* C15: if one of the three rewriting stages raises, no further call is made,
   save_xml in particular, and the files keep the content they had when the
   handler was constructed, whatever the tree in memory has become *)
EarlyStages ==
    {"preprocess_refquat_in_meshes", "expand_replicates_fields", "fix_site_placement"}
C15_FailFast ==
    [][ /\ disk'.mjcf = disk.mjcf
        /\ (ret'.raised /\ ret'.op \in EarlyStages) =>
              /\ "save_xml" \notin Range(log')
              /\ disk'.tmp = disk.mjcf
        /\ (ret.raised /\ ret.op \in EarlyStages) =>
              /\ log' = log
              /\ disk' = disk
              /\ pc' = "raised" ]_vars
\* the expansion raised after the geom had been corrected in memory
C15_Witness ==
    /\ pc = "unwind"
    /\ ret.op = "expand_replicates_fields" /\ ret.raised
    /\ File(write(nodes, ROOT)) # disk.tmp
    /\ disk.tmp = disk.mjcf

(* C16: save_xml never raises; it returns True exactly when the write
   succeeded and False otherwise, and leaves the tree as it was (the tree the
   rewriting stages had produced before the call) *)
C16_SaveXmlReports ==
    ret.op = "save_xml" =>
        /\ ~ret.raised
        /\ nodes = C14_PostExpansionTree(disk.mjcf.doc)
        /\ (ret.val = TRUE) <=> (io = "written")
        /\ (io = "written") => disk.tmp = File(write(nodes, ROOT))
        /\ (ret.val = FALSE) => disk.tmp \in {disk.mjcf, PARTIAL}
\* a failed write was reported and the run went on with the tree it had
C16_Witness ==
    /\ ret.op = "save_xml" /\ ret.val = FALSE /\ ~ret.raised
    /\ io = "failed"
    /\ disk.tmp = PARTIAL
    /\ pc = "get_joints"
    /\ nodes = C14_PostExpansionTree(disk.mjcf.doc)

(* C17: every instance made from a replicate block becomes a direct child of
   the element that encloses the block, never of the block; the instances of
   a block directly under worldbody are direct children of worldbody *)
\* the elements created by the call that are in the document afterwards
Fresh(ns, after) == {e \in Live(after) : e \notin DOMAIN ns}
EnclosesBlock(ns, p) ==
    /\ ns[p].tag # "replicate"
    /\ \E r \in Range(ns[p].kids) : ns[r].tag = "replicate"
C17_UnderEncloser(ns, after) ==
    \A e \in Fresh(ns, after) :
        /\ after[Parent(after, e)].tag # "replicate"
        /\ Parent(after, e) \in DOMAIN ns => EnclosesBlock(ns, Parent(after, e))
C17_UnderWorldbody(ns, after) ==
    /\ Len(after[Worldbody(after)].kids) = BlockCount(ns) * Len(ns[Block(ns)].kids)
    /\ Range(after[Worldbody(after)].kids) = Fresh(ns, after)
C17_InstancesUnderEncloser ==
    [][ Expanded(ret') =>
          /\ C17_UnderEncloser(nodes, nodes')
          /\ (SingleBlock(nodes) /\ BlockCount(nodes) >= 1) =>
                C17_UnderWorldbody(nodes, nodes') ]_vars
\* the number of elements of the file the handler was constructed on
InitialLen == Len(Parse(<<>>, disk.mjcf.doc).ns)
\* one expansion put instances under worldbody and under body b, which
\* encloses blocks of its own
C17_Witness ==
    /\ Expanded(ret) /\ expands = 1
    /\ \E e \in Live(nodes) :
          e > InitialLen /\ Parent(nodes, e) = Worldbody(nodes)
    /\ \E e \in Live(nodes) :
          /\ e > InitialLen /\ Parent(nodes, e) <= InitialLen
          /\ nodes[Parent(nodes, e)].tag = "body"

(* C18: an outer block with count m around an inner block with count n and k
   template children expands to exactly m*n*k instances, all direct children
   of the element enclosing the outer block; no template and no intermediate
   instance of the inner block is left in the document *)
\* worldbody holds one block, which holds one block of plain template elements
Inner(ns) == ns[Block(ns)].kids[1]
NestedBlocks(ns) ==
    /\ Worldbody(ns) # 0
    /\ Len(ns[Worldbody(ns)].kids) = 1
    /\ ns[Block(ns)].tag = "replicate"
    /\ Len(ns[Block(ns)].kids) = 1
    /\ ns[Inner(ns)].tag = "replicate"
    /\ \A k \in Range(ns[Inner(ns)].kids) : ns[k].tag # "replicate" /\ ns[k].kids = <<>>
    /\ BlockCount(ns) >= 1
    /\ Get(ns, Inner(ns), "count", 1) >= 1
C18_Product(ns) ==
    BlockCount(ns) * Get(ns, Inner(ns), "count", 1) * Len(ns[Inner(ns)].kids)
C18_Multiplied(ns, after) ==
    /\ Len(after[Worldbody(after)].kids) = C18_Product(ns)
    /\ Cardinality(Range(after[Worldbody(after)].kids)) = C18_Product(ns)
    /\ Range(after[Worldbody(after)].kids) = Fresh(ns, after)
    /\ Live(after) \cap DOMAIN ns = {ROOT, Worldbody(ns)}
    /\ \A e \in Fresh(ns, after) :
          \E t \in Range(ns[Inner(ns)].kids) : after[e].tag = ns[t].tag
C18_NestedMultiplies ==
    [][ (Expanded(ret') /\ NestedBlocks(nodes)) => C18_Multiplied(nodes, nodes') ]_vars
\* two times two times two templates: eight geoms under worldbody
C18_Witness ==
    /\ Expanded(ret) /\ expands = 1
    /\ NestedBlocks(Parse(<<>>, disk.mjcf.doc).ns)
    /\ C18_Product(Parse(<<>>, disk.mjcf.doc).ns) = 8
    /\ Len(nodes[Worldbody(nodes)].kids) = 8

(* C19: for every body with a direct child body named 'object' and at least
   one direct child site, fix_site_placement takes all its direct child sites
   away and appends them, attributes unchanged and in their order, after the
   existing children of the 'object' body; it returns True exactly when a
   site was moved *)
Misplaced(ns, b) == ObjectKids(ns, b) # <<>> /\ SiteKids(ns, b) # <<>>
C19_Moved(ns, after, b) ==
    /\ SiteKids(after, b) = <<>>
    /\ \E o \in Range(ObjectKids(ns, b)) : after[o].kids = ns[o].kids \o SiteKids(ns, b)
    /\ \A s \in Range(SiteKids(ns, b)) : after[s].attr = ns[s].attr
C19_SitesIntoObject ==
    [][ Fixed(ret') =>
          /\ \A b \in Bodies(nodes) : Misplaced(nodes, b) => C19_Moved(nodes, nodes', b)
          /\ ret'.modified <=> (\E b \in Bodies(nodes) : Misplaced(nodes, b)) ]_vars

(* C20: get_joints has an entry for exactly the non-empty names of the joints
   that are direct children of a body reached from worldbody through bodies
   only; a joint without a name gives no entry and no error; of several joints
   with one name the entry holds the parameters of the one recorded last (a
   body's own joints come before those of its child bodies); the document is
   not modified *)
\* the joints in the order get_joints records them
RECURSIVE JointsFrom(_, _)
JointsFrom(ns, b) ==
    SelectSeq(ns[b].kids, LAMBDA c : ns[c].tag = "joint")
      \o Concat([i \in DOMAIN ns[b].kids |->
                    IF ns[ns[b].kids[i]].tag = "body" THEN JointsFrom(ns, ns[b].kids[i])
                    ELSE <<>>])
RecordedUnder(ns, worldbody) ==
    SelectSeq(Concat([i \in DOMAIN ns[worldbody].kids |->
                         IF ns[ns[worldbody].kids[i]].tag = "body"
                         THEN JointsFrom(ns, ns[worldbody].kids[i]) ELSE <<>>]),
              LAMBDA j : Get(ns, j, "name", <<>>) # <<>>)
RecordedJoints(ns) ==
    IF Worldbody(ns) = 0 THEN <<>> ELSE RecordedUnder(ns, Worldbody(ns))
LastOf(s) == s[Len(s)]
LastOfName(ns, js, n) == LastOf(SelectSeq(js, LAMBDA j : ns[j].attr.name = n))
C20_Entry(ns, entry, j) ==
    /\ entry.damping = Get(ns, j, "damping", <<>>)
    /\ entry.stiffness = Get(ns, j, "stiffness", <<>>)
    /\ entry.frictionloss = Get(ns, j, "frictionloss", <<>>)
C20_EntriesOf(ns, js, val) ==
    /\ DOMAIN val = {ns[js[i]].attr.name : i \in DOMAIN js}
    /\ \A n \in DOMAIN val : C20_Entry(ns, val[n], LastOfName(ns, js, n))
C20_Entries(ns, val) == C20_EntriesOf(ns, RecordedJoints(ns), val)
C20_JointEntries ==
    [][ ret'.op = "get_joints" =>
          /\ ~ret'.raised
          /\ nodes' = nodes
          /\ C20_Entries(nodes, ret'.val) ]_vars
\* body A holds joint j with damping 2 after a child body whose joint j has
\* damping 1: the entry is the child's, recorded last
C20_Witness ==
    /\ ret.op = "get_joints"
    /\ DOMAIN ret.val = {JJ}
    /\ ret.val[JJ].damping = <<1>>
    /\ \E j \in Live(nodes) :
          /\ nodes[j].tag = "joint"
          /\ Get(nodes, j, "damping", <<>>) = <<2>>
          /\ \E k \in Live(nodes) : nodes[k].tag = "joint" /\ k < j
                                     /\ Get(nodes, k, "damping", <<>>) = <<1>>

(* C21: expand_replicates_fields called a second time on the same XMLHandler,
   directly after a first call that returned, leaves the whole tree unchanged:
   the names the first call's renaming pass assigned are not renamed again *)
C21_SecondCall == Expanded(ret) /\ Expanded(ret') /\ expands' = expands + 1
C21_ExpandIdempotent ==
    [][ C21_SecondCall => nodes' = nodes ]_vars

(* C22: after the reference-quaternion correction followed by the expansion,
   run on a document whose elements each carry at most one of the attributes
   quat, axisangle and euler, every element of the tree carries at most one of
   them: an axisangle or euler of a corrected geom or of a replicated instance
   does not survive next to the quat written for it *)
Encodings(ns, e) == {a \in {"quat", "axisangle", "euler"} : Has(ns, e, a)}
OneEncoding(ns) == \A e \in Live(ns) : Cardinality(Encodings(ns, e)) <= 1
C22_Pipeline ==
    /\ Preprocessed(ret) /\ expands = 0
    /\ Expanded(ret') /\ expands' = 1
    /\ OneEncoding(Parse(<<>>, disk.mjcf.doc).ns)
C22_OneOrientation ==
    [][ C22_Pipeline => OneEncoding(nodes') ]_vars

(* C23: preprocess_refquat_in_meshes changes a geom only if a mesh declaration
   of exactly the name the geom references carries a refquat: a geom whose
   mesh was declared without refquat keeps its attributes, also when another
   mesh whose name differs only in '.' versus '-' carries one, and a geom
   without a mesh attribute keeps its attributes *)
DeclaredRefquat(ns, e) ==
    /\ Has(ns, e, "mesh")
    /\ \E m \in Range(TableMeshes(ns)) : ns[m].attr.name = ns[e].attr.mesh
Geoms(ns) == {e \in Live(ns) : ns[e].tag = "geom"}
C23_OnlyOwnMesh ==
    [][ Preprocessed(ret') =>
          \A e \in Geoms(nodes) : ~DeclaredRefquat(nodes, e) => nodes'[e] = nodes[e] ]_vars

==========================================================================
